---- MODULE Spec2Model ----
(***************************************************************************)
(* FinTech API Referee: the scoring engine of models.py.                   *)
(*                                                                         *)
(* Representation of Python values                                         *)
(*  - An Enum member is written as its .value string.                      *)
(*  - A float is a record [cls, n, d]: cls = "finite" with the exact       *)
(*    value n/d in lowest terms, or cls in {"inf", "-inf", "nan"}.  The     *)
(*    scores the engine computes are finite; for requests of at most five  *)
(*    data types the IEEE-754 results of the scoring expressions compare   *)
(*    and round exactly as these exact values do.                          *)
(*  - A free-text clause (str) is the sequence of its words, split at      *)
(*    blanks, "/" and "-" (the separators "/" and "-" are words of their   *)
(*    own); `kw in s` is contiguous-subsequence, s.lower() is word-wise.   *)
(*  - A call that can raise returns [raised, error, value].                *)
(*  - An APIInfo carries the field `absent`: the attributes the object     *)
(*    does not have (a malformed record); reading one raises.              *)
(***************************************************************************)
EXTENDS Integers, Sequences, FiniteSets, TLC

VARIABLES
    constraints,      \* UserConstraints passed to score_apis
    apis,             \* the `apis` argument of score_apis: [is_none, items]
    pc,               \* position of the request
    scored_apis,      \* the list score_apis returned
    error,            \* the exception a call raised ("" when none)
    total_score,      \* argument of calculate_compatibility_percentage
    compatibility,    \* outcome of calculate_compatibility_percentage
    api,              \* argument of score_use_case_suitability
    use_case_score,   \* outcome of score_use_case_suitability
    tos_conflict,     \* outcome of has_tos_restrictions_for_use_case
    top_apis,         \* the ranked list passed to generate_verdict
    verdict,          \* outcome of generate_verdict
    catalog,          \* what get_all_apis() yields on the fallback path
    fallback_scores,  \* outcome of get_fallback_recommendations
    fallback_verdict, \* outcome of generate_fallback_verdict
    form,             \* the raw values of the sidebar form
    validation,       \* outcome of validate_constraints
    analyze_clicked,  \* whether the submit button was pressed
    shown,            \* what main has put on the page, in order
    calls,            \* the engine functions main has called, in order
    handled           \* the except clauses main has entered, in order

verdictVars == <<top_apis, verdict>>

fallbackVars == <<catalog, fallback_scores, fallback_verdict>>

formVars == <<form, validation>>

mainVars == <<analyze_clicked, shown, calls, handled>>

vars == <<constraints, apis, pc, scored_apis, error, total_score,
          compatibility, api, use_case_score, tos_conflict, verdictVars,
          fallbackVars, formVars, mainVars>>

(***************************************************************************)
(* Bounds of the checked inputs.                                           *)
(***************************************************************************)
MaxTypes == 3        \* longest data_types list of a request
MaxApis == 2         \* longest explicit `apis` list
MaxClauses == 2      \* longest tos_restrictions list of a drawn record
MaxQuarter == 110    \* drawn total_score values reach +-MaxQuarter/4 around 0 and 100
MaxRanked == 2       \* longest ranked list passed to generate_verdict
MaxFallbackTypes == 2   \* longest data_types list of a fallback request
MaxFormTypes == 2    \* longest data_types selection of a form
MaxScenarioApis == 3 \* longest catalog of the one-free-provider scenario

(***************************************************************************)
(* Enumerations                                                            *)
(***************************************************************************)
\* (mutation) a tier no record of the catalog was written for
BudgetTier_with_premium ==
    {"Free", "Under $50/month", "Under $200/month", "Enterprise", "Premium"}

BudgetTier == {"Free", "Under $50/month", "Under $200/month", "Enterprise"}

DataType == {"Stocks", "Crypto", "Forex", "Options", "Commodities"}

FrequencyTier == {"Real-time", "Delayed (15-20 min)", "End-of-day", "Historical only"}

UseCase == {"Research/Analysis", "Trading Bot", "Portfolio Tracking", "Educational"}

(***************************************************************************)
(* Floats                                                                  *)
(***************************************************************************)
Abs(x) == IF x < 0 THEN -x ELSE x

RECURSIVE GCD(_, _)
GCD(a, b) == IF b = 0 THEN a ELSE GCD(b, a % b)

Float(n, d) ==
    LET g == GCD(Abs(n), d)
    IN  [cls |-> "finite", n |-> n \div g, d |-> d \div g]

PosInf == [cls |-> "inf", n |-> 0, d |-> 1]
NegInf == [cls |-> "-inf", n |-> 0, d |-> 1]
NaN == [cls |-> "nan", n |-> 0, d |-> 1]

FAdd(x, y) == Float(x.n * y.d + y.n * x.d, x.d * y.d)
FMul(x, y) == Float(x.n * y.n, x.d * y.d)
FDiv(a, b) == Float(a, b)                      \* int / int, b > 0
FLess(x, y) == x.n * y.d < y.n * x.d
FLeq(x, y) == x.n * y.d <= y.n * x.d

\* Python round(): nearest integer, a tie goes to the even neighbour.
PyRound(x) ==
    LET fl == x.n \div x.d
        r2 == 2 * (x.n - fl * x.d)
    IN  IF r2 > x.d THEN fl + 1
        ELSE IF r2 < x.d THEN fl
        ELSE IF fl % 2 = 0 THEN fl ELSE fl + 1

Max(a, b) == IF a >= b THEN a ELSE b
Min(a, b) == IF a <= b THEN a ELSE b

(***************************************************************************)
(* Outcomes of calls                                                       *)
(***************************************************************************)
Ok(v) == [raised |-> FALSE, error |-> "", value |-> v]
Raise(e, dflt) == [raised |-> TRUE, error |-> e, value |-> dflt]

(***************************************************************************)
(* Strings and containers                                                  *)
(***************************************************************************)
In(x, list) == \E i \in 1..Len(list) : list[i] = x

\* dict.get(key, default)
DictGet(dict, key, default) == IF key \in DOMAIN dict THEN dict[key] ELSE default

UpperWords ==
    "ALLOWED" :> "allowed" @@ "API" :> "api" @@ "Allowed" :> "allowed" @@ "Attribution" :> "attribution" @@
    "Audit" :> "audit" @@ "Basic" :> "basic" @@ "COMMERCIAL" :> "commercial" @@ "Commercial" :> "commercial" @@
    "Data" :> "data" @@ "Documentation" :> "documentation" @@ "EXPLICITLY" :> "explicitly" @@ "Finnhub" :> "finnhub" @@
    "Free" :> "free" @@ "Included" :> "included" @@ "Learning" :> "learning" @@ "Limited" :> "limited" @@
    "Must" :> "must" @@ "Nasdaq" :> "nasdaq" @@ "No" :> "no" @@ "Non" :> "non" @@
    "Only" :> "only" @@ "PROHIBITED" :> "prohibited" @@ "Personal" :> "personal" @@ "Premium" :> "premium" @@
    "Rate" :> "rate" @@ "Real" :> "real" @@ "SLA" :> "sla" @@ "Scraping" :> "scraping" @@
    "Some" :> "some" @@ "Stocks" :> "stocks" @@ "Strict" :> "strict" @@ "TOS" :> "tos" @@
    "Terms" :> "terms" @@ "US" :> "us" @@ "USE" :> "use" @@ "Unofficial" :> "unofficial" @@
    "Use" :> "use" @@ "Very" :> "very" @@ "WebSocket" :> "websocket" @@
    "Clear" :> "clear" @@ "Company" :> "company" @@ "Completely" :> "completely" @@ "Comprehensive" :> "comprehensive" @@
    "Developer" :> "developer" @@ "Easy" :> "easy" @@ "Excellent" :> "excellent" @@ "Extensive" :> "extensive" @@
    "Generous" :> "generous" @@ "Global" :> "global" @@ "Good" :> "good" @@ "High" :> "high" @@
    "Institutional" :> "institutional" @@ "Options" :> "options" @@ "REST" :> "rest" @@ "Simple" :> "simple" @@
    "Stable" :> "stable" @@ "Strong" :> "strong" @@ "Technical" :> "technical" @@ "Wide" :> "wide" @@
    "Enterprise" :> "enterprise" @@ "Under" :> "under" @@
    "Please" :> "please" @@ "System" :> "system" @@ "This" :> "this" @@ "Unable" :> "unable"

\* str.lower() of one word
LowerWord(w) == IF w \in DOMAIN UpperWords THEN UpperWords[w] ELSE w

\* str.lower()
Lower(s) == [i \in 1..Len(s) |-> LowerWord(s[i])]

\* keyword in s
Contains(keyword, s) ==
    \E i \in 0..(Len(s) - Len(keyword)) : SubSeq(s, i + 1, i + Len(keyword)) = keyword

(***************************************************************************)
(* Scoring configuration                                                   *)
(***************************************************************************)
\* (mutation) the frequency weight lowered, the use_case weight raised
SCORING_WEIGHTS_skewed ==
    "budget" :> Float(30, 100) @@ "data_types" :> Float(30, 100) @@
    "frequency" :> Float(20, 100) @@ "use_case" :> Float(20, 100)

SCORING_WEIGHTS ==
    "budget" :> Float(30, 100) @@ "data_types" :> Float(30, 100) @@
    "frequency" :> Float(25, 100) @@ "use_case" :> Float(15, 100)

F0 == Float(0, 1)
F25 == Float(25, 1)
F75 == Float(75, 1)
F100 == Float(100, 1)

(***************************************************************************)
(* Category scores                                                         *)
(***************************************************************************)
\* (mutation) a tier missing from the pricing counts as supported
score_budget_compatibility_default_true(a, c) ==
    IF "pricing" \in a.absent THEN Raise("AttributeError", F0)
    ELSE IF DictGet(a.pricing, c.budget, TRUE) THEN Ok(F100)
    ELSE Ok(F0)

score_budget_compatibility(a, c) ==
    IF "pricing" \in a.absent THEN Raise("AttributeError", F0)
    ELSE IF DictGet(a.pricing, c.budget, FALSE) THEN Ok(F100)
    ELSE Ok(F0)

score_data_type_coverage(a, c) ==
    IF Len(c.data_types) = 0 THEN Ok(F100)
    ELSE IF "data_coverage" \in a.absent THEN Raise("AttributeError", F0)
    ELSE LET covered == Cardinality({i \in 1..Len(c.data_types) :
                                        In(c.data_types[i], a.data_coverage)})
         IN  Ok(FMul(FDiv(covered, Len(c.data_types)), F100))

\* (mutation) the requested frequency is not looked at
score_frequency_availability_any(a, c) ==
    IF "frequency_support" \in a.absent THEN Raise("AttributeError", F0)
    ELSE Ok(F100)

score_frequency_availability(a, c) ==
    IF "frequency_support" \in a.absent THEN Raise("AttributeError", F0)
    ELSE IF In(c.frequency, a.frequency_support) THEN Ok(F100)
    ELSE Ok(F0)

commercial_use_cases == <<"Trading Bot">>

commercial_restricted_keywords ==
    << <<"commercial", "use", "explicitly", "prohibited">>,
       <<"non", "-", "commercial", "use", "only">>,
       <<"personal", "/", "educational", "use", "only">>,
       <<"free", "tier", "for", "non", "-", "commercial", "use", "only">> >>

commercial_allowed_keywords ==
    << <<"commercial", "use", "allowed">>,
       <<"commercial", "use", "included">> >>

\* for restriction in ...: for keyword in keywords: if keyword in restriction.lower()
AnyKeyword(keywords, restrictions) ==
    \E r \in 1..Len(restrictions) : \E k \in 1..Len(keywords) :
        Contains(keywords[k], Lower(restrictions[r]))

\* (mutation) the allowed phrases are looked for before the prohibitions
score_use_case_suitability_allowed_first(a, c) ==
    IF In(c.use_case, commercial_use_cases)
    THEN IF "tos_restrictions" \in a.absent THEN Raise("AttributeError", F0)
         ELSE IF AnyKeyword(commercial_allowed_keywords, a.tos_restrictions)
              THEN Ok(F100)
         ELSE IF AnyKeyword(commercial_restricted_keywords, a.tos_restrictions)
              THEN Ok(F25)
         ELSE Ok(F75)
    ELSE Ok(F100)

score_use_case_suitability(a, c) ==
    IF In(c.use_case, commercial_use_cases)
    THEN IF "tos_restrictions" \in a.absent THEN Raise("AttributeError", F0)
         ELSE IF AnyKeyword(commercial_restricted_keywords, a.tos_restrictions)
              THEN Ok(F25)
         ELSE IF AnyKeyword(commercial_allowed_keywords, a.tos_restrictions)
              THEN Ok(F100)
         ELSE Ok(F75)
    ELSE Ok(F100)

\* the keys of the dict calculate_category_scores builds, in insertion order
CategoryOrder == <<"budget", "data_types", "frequency", "use_case">>

calculate_category_scores(a, c) ==
    LET b == score_budget_compatibility(a, c)
        d == score_data_type_coverage(a, c)
        f == score_frequency_availability(a, c)
        u == score_use_case_suitability(a, c)
    IN  IF b.raised \/ d.raised \/ f.raised \/ u.raised
        THEN Raise("AttributeError", <<>>)
        ELSE Ok("budget" :> b.value @@ "data_types" :> d.value @@
                "frequency" :> f.value @@ "use_case" :> u.value)

RECURSIVE WeightedSum(_, _, _, _)
WeightedSum(category_scores, weights, keys, total) ==
    IF keys = <<>> THEN total
    ELSE LET category == Head(keys)
             weight == DictGet(weights, category, F0)
         IN  WeightedSum(category_scores, weights, Tail(keys),
                         FAdd(total, FMul(category_scores[category], weight)))

\* (mutation) the budget category does not count
calculate_total_score_no_budget(category_scores) ==
    WeightedSum(category_scores, SCORING_WEIGHTS,
                SelectSeq(CategoryOrder, LAMBDA k : k # "budget"), F0)

calculate_total_score(category_scores) ==
    WeightedSum(category_scores, SCORING_WEIGHTS,
                SelectSeq(CategoryOrder, LAMBDA k : k \in DOMAIN category_scores), F0)

calculate_compatibility_percentage(t) ==
    IF t.cls \in {"inf", "-inf"} THEN Raise("OverflowError", 0)
    ELSE IF t.cls = "nan" THEN Raise("ValueError", 0)
    ELSE Ok(Max(0, Min(100, PyRound(t))))

(***************************************************************************)
(* The catalog                                                             *)
(***************************************************************************)
get_all_apis ==
  <<
    [ name |-> "Alpha Vantage",
      pricing |-> ("Free" :> TRUE @@ "Under $50/month" :> TRUE @@ "Under $200/month" :> TRUE @@ "Enterprise" :> TRUE),
      data_coverage |-> <<"Stocks", "Crypto", "Forex", "Commodities">>,
      frequency_support |-> <<"Real-time", "Delayed (15-20 min)", "End-of-day", "Historical only">>,
      rate_limits |-> ("requests_per_minute" :> 5 @@ "requests_per_day" :> 500),
      strengths |-> <<"Generous free tier with 500 requests/day", "Excellent documentation and community support", "Wide data coverage including stocks, crypto, forex", "Technical indicators built-in", "Stable and reliable service">>,
      limitations |-> <<
        <<"Strict", "rate", "limits", "on", "free", "tier", "(5", "req", "/", "min)">>,
        <<"No", "options", "data", "available">>,
        <<"Real", "-", "time", "data", "requires", "premium", "subscription">>,
        <<"Limited", "historical", "depth", "on", "free", "tier">> >>,
      tos_restrictions |-> <<
        <<"Attribution", "required", "for", "free", "tier", "usage">>,
        <<"Commercial", "use", "allowed", "with", "proper", "licensing">>,
        <<"No", "redistribution", "of", "raw", "data", "without", "permission">> >>,
      reliability_score |-> Float(85, 100),
      absent |-> {} ],
    [ name |-> "Polygon.io",
      pricing |-> ("Free" :> TRUE @@ "Under $50/month" :> TRUE @@ "Under $200/month" :> TRUE @@ "Enterprise" :> TRUE),
      data_coverage |-> <<"Stocks", "Crypto", "Forex", "Options">>,
      frequency_support |-> <<"Real-time", "Delayed (15-20 min)", "End-of-day", "Historical only">>,
      rate_limits |-> ("requests_per_minute" :> 5 @@ "requests_per_day" :> 1000),
      strengths |-> <<"Institutional-grade data quality", "Excellent real-time streaming capabilities", "Comprehensive options data", "WebSocket support for live data", "Strong API design and documentation">>,
      limitations |-> <<
        <<"Free", "tier", "has", "limited", "features">>,
        <<"Premium", "pricing", "for", "full", "real", "-", "time", "access">>,
        <<"Some", "advanced", "features", "require", "enterprise", "plan">>,
        <<"Learning", "curve", "for", "WebSocket", "integration">> >>,
      tos_restrictions |-> <<
        <<"Free", "tier", "for", "personal", "/", "non", "-", "commercial", "use", "only">>,
        <<"Commercial", "use", "requires", "paid", "subscription">>,
        <<"Data", "redistribution", "prohibited", "without", "license">>,
        <<"Must", "comply", "with", "exchange", "data", "policies">> >>,
      reliability_score |-> Float(92, 100),
      absent |-> {} ],
    [ name |-> "Yahoo Finance",
      pricing |-> ("Free" :> TRUE @@ "Under $50/month" :> FALSE @@ "Under $200/month" :> FALSE @@ "Enterprise" :> FALSE),
      data_coverage |-> <<"Stocks", "Crypto", "Forex", "Options", "Commodities">>,
      frequency_support |-> <<"Delayed (15-20 min)", "End-of-day", "Historical only">>,
      rate_limits |-> ("requests_per_minute" :> 100 @@ "requests_per_day" :> 2000),
      strengths |-> <<"Completely free to use", "Wide coverage of global markets", "Good historical data depth", "Options chain data available", "Easy to use with yfinance library">>,
      limitations |-> <<
        <<"Unofficial", "API", "-", "may", "break", "without", "notice">>,
        <<"No", "official", "support", "or", "SLA">>,
        <<"Data", "quality", "can", "be", "inconsistent">>,
        <<"No", "real", "-", "time", "data", "available">>,
        <<"Rate", "limiting", "can", "be", "unpredictable">> >>,
      tos_restrictions |-> <<
        <<"Commercial", "use", "explicitly", "prohibited">>,
        <<"No", "redistribution", "allowed">>,
        <<"Personal", "/", "educational", "use", "only">>,
        <<"Terms", "may", "change", "without", "notice">>,
        <<"Scraping", "may", "violate", "TOS">> >>,
      reliability_score |-> Float(60, 100),
      absent |-> {} ],
    [ name |-> "Finnhub",
      pricing |-> ("Free" :> TRUE @@ "Under $50/month" :> TRUE @@ "Under $200/month" :> TRUE @@ "Enterprise" :> TRUE),
      data_coverage |-> <<"Stocks", "Crypto", "Forex">>,
      frequency_support |-> <<"Real-time", "Delayed (15-20 min)", "End-of-day", "Historical only">>,
      rate_limits |-> ("requests_per_minute" :> 60 @@ "requests_per_day" :> 1500),
      strengths |-> <<"Strong alternative data (news, sentiment)", "Good free tier with 60 req/min", "Real-time WebSocket support", "Company fundamentals and financials", "Developer-friendly API design">>,
      limitations |-> <<
        <<"No", "options", "data">>,
        <<"No", "commodities", "data">>,
        <<"Limited", "historical", "depth", "on", "free", "tier">>,
        <<"Some", "features", "US", "-", "market", "focused">> >>,
      tos_restrictions |-> <<
        <<"Free", "tier", "allows", "commercial", "use", "with", "attribution">>,
        <<"Data", "redistribution", "requires", "enterprise", "license">>,
        <<"Must", "display", "Finnhub", "attribution", "in", "apps">> >>,
      reliability_score |-> Float(88, 100),
      absent |-> {} ],
    [ name |-> "EODHD",
      pricing |-> ("Free" :> TRUE @@ "Under $50/month" :> TRUE @@ "Under $200/month" :> TRUE @@ "Enterprise" :> TRUE),
      data_coverage |-> <<"Stocks", "Crypto", "Forex", "Options", "Commodities">>,
      frequency_support |-> <<"Delayed (15-20 min)", "End-of-day", "Historical only">>,
      rate_limits |-> ("requests_per_minute" :> 20 @@ "requests_per_day" :> 1000),
      strengths |-> <<"Excellent historical data (30+ years)", "Global market coverage (70+ exchanges)", "Comprehensive fundamental data", "Good value for price", "Options and commodities included">>,
      limitations |-> <<
        <<"No", "real", "-", "time", "streaming", "data">>,
        <<"API", "can", "be", "slower", "than", "competitors">>,
        <<"Documentation", "could", "be", "improved">>,
        <<"Limited", "free", "tier", "features">> >>,
      tos_restrictions |-> <<
        <<"Commercial", "use", "allowed", "on", "paid", "plans">>,
        <<"Free", "tier", "for", "evaluation", "only">>,
        <<"Data", "redistribution", "requires", "special", "license">>,
        <<"Must", "comply", "with", "exchange", "agreements">> >>,
      reliability_score |-> Float(82, 100),
      absent |-> {} ],
    [ name |-> "Quandl",
      pricing |-> ("Free" :> FALSE @@ "Under $50/month" :> FALSE @@ "Under $200/month" :> TRUE @@ "Enterprise" :> TRUE),
      data_coverage |-> <<"Stocks", "Forex", "Commodities">>,
      frequency_support |-> <<"End-of-day", "Historical only">>,
      rate_limits |-> ("requests_per_minute" :> 300 @@ "requests_per_day" :> 50000),
      strengths |-> <<"Premium institutional-grade data", "Extensive alternative datasets", "High data quality and accuracy", "Excellent for quantitative research", "Strong data governance and compliance">>,
      limitations |-> <<
        <<"No", "free", "tier", "available">>,
        <<"Premium", "pricing", "(starts", "~$100", "/", "month)">>,
        <<"No", "real", "-", "time", "data">>,
        <<"No", "crypto", "data">>,
        <<"No", "options", "data">> >>,
      tos_restrictions |-> <<
        <<"Commercial", "use", "included", "in", "subscription">>,
        <<"Data", "redistribution", "strictly", "prohibited">>,
        <<"Must", "comply", "with", "Nasdaq", "data", "policies">>,
        <<"Audit", "rights", "reserved", "by", "provider">> >>,
      reliability_score |-> Float(95, 100),
      absent |-> {} ],
    [ name |-> "Marketstack",
      pricing |-> ("Free" :> TRUE @@ "Under $50/month" :> TRUE @@ "Under $200/month" :> TRUE @@ "Enterprise" :> TRUE),
      data_coverage |-> <<"Stocks">>,
      frequency_support |-> <<"Delayed (15-20 min)", "End-of-day", "Historical only">>,
      rate_limits |-> ("requests_per_minute" :> 10 @@ "requests_per_day" :> 100),
      strengths |-> <<"Simple REST API design", "Good for beginners", "Global stock market coverage", "Easy integration", "Clear documentation">>,
      limitations |-> <<
        <<"Stocks", "only", "-", "no", "crypto,", "forex,", "options">>,
        <<"Very", "limited", "free", "tier", "(100", "req", "/", "day)">>,
        <<"No", "real", "-", "time", "data">>,
        <<"Basic", "feature", "set", "compared", "to", "competitors">>,
        <<"Limited", "technical", "indicators">> >>,
      tos_restrictions |-> <<
        <<"Free", "tier", "for", "non", "-", "commercial", "use", "only">>,
        <<"Commercial", "use", "requires", "paid", "plan">>,
        <<"No", "data", "redistribution">>,
        <<"Attribution", "appreciated", "but", "not", "required">> >>,
      reliability_score |-> Float(78, 100),
      absent |-> {} ]
  >>

(***************************************************************************)
(* score_apis                                                              *)
(***************************************************************************)
APIScore(a, total, category_scores, compat, rank) ==
    [api |-> a, total_score |-> total, category_scores |-> category_scores,
     compatibility_percentage |-> compat, recommendation_rank |-> rank]

\* The body of the per-entry try block.
ScoreOne(a, c) ==
    LET cs == calculate_category_scores(a, c)
    IN  IF cs.raised THEN Raise(cs.error, <<>>)
        ELSE LET total == calculate_total_score(cs.value)
                 compat == calculate_compatibility_percentage(total)
             IN  IF compat.raised THEN Raise(compat.error, <<>>)
                 ELSE Ok(APIScore(a, total, cs.value, compat.value, 0))

\* (mutation) an entry the budget does not fit is left out, as the fallback
\* scoring does
RECURSIVE ScoreLoop_filter(_, _, _, _)
ScoreLoop_filter(items, c, i, acc) ==
    IF i > Len(items) THEN Ok(acc)
    ELSE LET one == ScoreOne(items[i], c)
         IN  IF "name" \in items[i].absent THEN Raise("AttributeError", <<>>)
             ELSE IF ~one.raised
             THEN ScoreLoop_filter(items, c, i + 1,
                      IF one.value.category_scores["budget"] = F0 THEN acc
                      ELSE Append(acc, one.value))
             ELSE ScoreLoop_filter(items, c, i + 1, acc)

\* The for loop: the scored entries so far, or the exception that left the
\* loop.  The debug message after the append and the except clause both
\* format api.name: on an entry without that attribute the try block is
\* left, scored or not, the handler itself raises and the exception leaves
\* the loop.
RECURSIVE ScoreLoop(_, _, _, _)
ScoreLoop(items, c, i, acc) ==
    IF i > Len(items) THEN Ok(acc)
    ELSE LET one == ScoreOne(items[i], c)
         IN  IF "name" \in items[i].absent THEN Raise("AttributeError", <<>>)
             ELSE IF ~one.raised
             THEN ScoreLoop(items, c, i + 1, Append(acc, one.value))
             ELSE ScoreLoop(items, c, i + 1, acc)

\* (mutation) an entry is put in front of the entries it ties with
RECURSIVE InsertDesc_unstable(_, _)
InsertDesc_unstable(sorted, x) ==
    IF sorted = <<>> THEN <<x>>
    ELSE IF FLeq(Head(sorted).total_score, x.total_score)
         THEN <<x>> \o sorted
         ELSE <<Head(sorted)>> \o InsertDesc_unstable(Tail(sorted), x)

\* list.sort(key=total_score, reverse=True): stable, equal keys keep their order
RECURSIVE InsertDesc(_, _)
InsertDesc(sorted, x) ==
    IF sorted = <<>> THEN <<x>>
    ELSE IF FLess(Head(sorted).total_score, x.total_score)
         THEN <<x>> \o sorted
         ELSE <<Head(sorted)>> \o InsertDesc(Tail(sorted), x)

\* (mutation) the list is left in catalog order
SortDesc_unsorted(list, sorted) == list

RECURSIVE SortDesc(_, _)
SortDesc(list, sorted) ==
    IF list = <<>> THEN sorted
    ELSE SortDesc(Tail(list), InsertDesc(sorted, Head(list)))

AssignRanks(list) == [i \in 1..Len(list) |-> [list[i] EXCEPT !.recommendation_rank = i]]

\* (mutation) an empty result is returned instead of raising
score_apis_no_empty_check(c, apis_arg) ==
    LET items == IF apis_arg.is_none THEN get_all_apis ELSE apis_arg.items
        loop == ScoreLoop(items, c, 1, <<>>)
    IN  IF loop.raised THEN Raise(loop.error, <<>>)
        ELSE Ok(AssignRanks(SortDesc(loop.value, <<>>)))

score_apis(c, apis_arg) ==
    LET items == IF apis_arg.is_none THEN get_all_apis ELSE apis_arg.items
        loop == ScoreLoop(items, c, 1, <<>>)
    IN  IF loop.raised THEN Raise(loop.error, <<>>)
        ELSE IF loop.value = <<>>
             THEN Raise("ValueError: Unable to score any APIs - all scoring attempts failed", <<>>)
        ELSE Ok(AssignRanks(SortDesc(loop.value, <<>>)))

(***************************************************************************)
(* Texts                                                                   *)
(* A text is the sequence of its words; a bold marker and a value put into *)
(* an f-string are words of their own.                                     *)
(***************************************************************************)
WordsOf ==
    "Alpha Vantage" :> <<"Alpha", "Vantage">> @@
    "Generous free tier with 500 requests/day" :> <<"Generous", "free", "tier", "with", "500", "requests", "/", "day">> @@
    "Excellent documentation and community support" :> <<"Excellent", "documentation", "and", "community", "support">> @@
    "Wide data coverage including stocks, crypto, forex" :> <<"Wide", "data", "coverage", "including", "stocks,", "crypto,", "forex">> @@
    "Technical indicators built-in" :> <<"Technical", "indicators", "built", "-", "in">> @@
    "Stable and reliable service" :> <<"Stable", "and", "reliable", "service">> @@
    "Institutional-grade data quality" :> <<"Institutional", "-", "grade", "data", "quality">> @@
    "Excellent real-time streaming capabilities" :> <<"Excellent", "real", "-", "time", "streaming", "capabilities">> @@
    "Comprehensive options data" :> <<"Comprehensive", "options", "data">> @@
    "WebSocket support for live data" :> <<"WebSocket", "support", "for", "live", "data">> @@
    "Strong API design and documentation" :> <<"Strong", "API", "design", "and", "documentation">> @@
    "Yahoo Finance" :> <<"Yahoo", "Finance">> @@
    "Completely free to use" :> <<"Completely", "free", "to", "use">> @@
    "Wide coverage of global markets" :> <<"Wide", "coverage", "of", "global", "markets">> @@
    "Good historical data depth" :> <<"Good", "historical", "data", "depth">> @@
    "Options chain data available" :> <<"Options", "chain", "data", "available">> @@
    "Easy to use with yfinance library" :> <<"Easy", "to", "use", "with", "yfinance", "library">> @@
    "Strong alternative data (news, sentiment)" :> <<"Strong", "alternative", "data", "(news,", "sentiment)">> @@
    "Good free tier with 60 req/min" :> <<"Good", "free", "tier", "with", "60", "req", "/", "min">> @@
    "Real-time WebSocket support" :> <<"Real", "-", "time", "WebSocket", "support">> @@
    "Company fundamentals and financials" :> <<"Company", "fundamentals", "and", "financials">> @@
    "Developer-friendly API design" :> <<"Developer", "-", "friendly", "API", "design">> @@
    "Excellent historical data (30+ years)" :> <<"Excellent", "historical", "data", "(30+", "years)">> @@
    "Global market coverage (70+ exchanges)" :> <<"Global", "market", "coverage", "(70+", "exchanges)">> @@
    "Comprehensive fundamental data" :> <<"Comprehensive", "fundamental", "data">> @@
    "Good value for price" :> <<"Good", "value", "for", "price">> @@
    "Options and commodities included" :> <<"Options", "and", "commodities", "included">> @@
    "Premium institutional-grade data" :> <<"Premium", "institutional", "-", "grade", "data">> @@
    "Extensive alternative datasets" :> <<"Extensive", "alternative", "datasets">> @@
    "High data quality and accuracy" :> <<"High", "data", "quality", "and", "accuracy">> @@
    "Excellent for quantitative research" :> <<"Excellent", "for", "quantitative", "research">> @@
    "Strong data governance and compliance" :> <<"Strong", "data", "governance", "and", "compliance">> @@
    "Simple REST API design" :> <<"Simple", "REST", "API", "design">> @@
    "Good for beginners" :> <<"Good", "for", "beginners">> @@
    "Global stock market coverage" :> <<"Global", "stock", "market", "coverage">> @@
    "Easy integration" :> <<"Easy", "integration">> @@
    "Clear documentation" :> <<"Clear", "documentation">> @@
    "Corrupted API" :> <<"Corrupted", "API">> @@
    "Limited API" :> <<"Limited", "API">> @@
    "Under $50/month" :> <<"Under", "$50", "/", "month">> @@
    "Under $200/month" :> <<"Under", "$200", "/", "month">> @@
    "Real-time" :> <<"Real", "-", "time">> @@
    "Delayed (15-20 min)" :> <<"Delayed", "(15", "-", "20", "min)">> @@
    "End-of-day" :> <<"End", "-", "of", "-", "day">> @@
    "Historical only" :> <<"Historical", "only">> @@
    "Research/Analysis" :> <<"Research", "/", "Analysis">> @@
    "Trading Bot" :> <<"Trading", "Bot">> @@
    "Portfolio Tracking" :> <<"Portfolio", "Tracking">> @@
    "N/A" :> <<"N", "/", "A">>

\* the words of a str value
Words(s) == IF s \in DOMAIN WordsOf THEN WordsOf[s] ELSE <<s>>

\* int(x): the fraction is cut off
PyInt(x) == IF x.n >= 0 THEN x.n \div x.d ELSE 0 - ((0 - x.n) \div x.d)

\* int(reliability_score * 100) put into an f-string
Percent(reliability_score) == ToString(PyInt(FMul(reliability_score, Float(100, 1))))

\* sep.join(texts)
RECURSIVE Join(_, _)
Join(sep, texts) ==
    IF texts = <<>> THEN <<>>
    ELSE IF Len(texts) = 1 THEN texts[1]
    ELSE texts[1] \o sep \o Join(sep, Tail(texts))

\* an attribute the object has
Has(a, attr) == attr \notin a.absent

(***************************************************************************)
(* Verdict generation                                                      *)
(***************************************************************************)
LOW_RELIABILITY_THRESHOLD == Float(70, 100)

SIGNIFICANT_LIMITATION_KEYWORDS ==
    << <<"commercial", "use", "explicitly", "prohibited">>,
       <<"non", "-", "commercial", "use", "only">>,
       <<"personal", "/", "educational", "use", "only">>,
       <<"unofficial", "api">>,
       <<"may", "break", "without", "notice">> >>

Verdict(text, trade_offs, next_steps, alternative_api, alternative_reason) ==
    [recommendation_text |-> text, trade_offs |-> trade_offs,
     next_steps |-> next_steps, alternative_api |-> alternative_api,
     alternative_reason |-> alternative_reason]

\* the keyword list of has_tos_restrictions_for_use_case
tos_conflict_keywords ==
    << <<"commercial", "use", "explicitly", "prohibited">>,
       <<"non", "-", "commercial", "use", "only">>,
       <<"personal", "/", "educational", "use", "only">>,
       <<"free", "tier", "for", "non", "-", "commercial", "use", "only">>,
       <<"free", "tier", "for", "personal", "/", "non", "-", "commercial",
         "use", "only">> >>

\* (mutation) the personal/educational phrase is not looked for
has_tos_restrictions_for_use_case_fewer(a, use_case) ==
    IF In(use_case, commercial_use_cases)
    THEN IF ~Has(a, "tos_restrictions") THEN Raise("AttributeError", FALSE)
         ELSE Ok(AnyKeyword(SubSeq(tos_conflict_keywords, 1, 2) \o
                            SubSeq(tos_conflict_keywords, 4, 5), a.tos_restrictions))
    ELSE Ok(FALSE)

has_tos_restrictions_for_use_case(a, use_case) ==
    IF In(use_case, commercial_use_cases)
    THEN IF ~Has(a, "tos_restrictions") THEN Raise("AttributeError", FALSE)
         ELSE Ok(AnyKeyword(tos_conflict_keywords, a.tos_restrictions))
    ELSE Ok(FALSE)

has_significant_limitations(api_score, c) ==
    LET a == api_score.api
    IN  IF ~Has(a, "reliability_score") THEN Raise("AttributeError", FALSE)
        ELSE IF FLess(a.reliability_score, LOW_RELIABILITY_THRESHOLD) THEN Ok(TRUE)
        ELSE LET tos == has_tos_restrictions_for_use_case(a, c.use_case)
             IN  IF tos.raised THEN tos
                 ELSE IF tos.value THEN Ok(TRUE)
                 ELSE IF ~Has(a, "limitations") THEN Raise("AttributeError", FALSE)
                 ELSE Ok(AnyKeyword(SIGNIFICANT_LIMITATION_KEYWORDS, a.limitations))

\* the two phrases get_limitation_reasons looks for in a limitation
instability_keywords ==
    << <<"unofficial", "api">>, <<"may", "break", "without", "notice">> >>

\* (mutation) the reasons follow the keyword list of has_significant_limitations
get_limitation_reasons_all_keywords(api_score, c) ==
    LET a == api_score.api
    IN  IF ~Has(a, "reliability_score") THEN Raise("AttributeError", <<>>)
        ELSE LET tos == has_tos_restrictions_for_use_case(a, c.use_case)
             IN  IF tos.raised THEN Raise(tos.error, <<>>)
                 ELSE IF ~Has(a, "limitations") THEN Raise("AttributeError", <<>>)
                 ELSE Ok(
                     (IF FLess(a.reliability_score, LOW_RELIABILITY_THRESHOLD)
                      THEN << <<"lower", "reliability", "score", "(">>
                              \o <<Percent(a.reliability_score)>> \o <<"%)">> >>
                      ELSE <<>>) \o
                     (IF tos.value
                      THEN << <<"TOS", "restrictions", "that", "may",
                                "conflict", "with", "your", "use", "case">> >>
                      ELSE <<>>) \o
                     (IF AnyKeyword(SIGNIFICANT_LIMITATION_KEYWORDS, a.limitations)
                      THEN << <<"potential", "stability", "concerns",
                                "(unofficial", "API)">> >>
                      ELSE <<>>))

get_limitation_reasons(api_score, c) ==
    LET a == api_score.api
    IN  IF ~Has(a, "reliability_score") THEN Raise("AttributeError", <<>>)
        ELSE LET tos == has_tos_restrictions_for_use_case(a, c.use_case)
             IN  IF tos.raised THEN Raise(tos.error, <<>>)
                 ELSE IF ~Has(a, "limitations") THEN Raise("AttributeError", <<>>)
                 ELSE Ok(
                     (IF FLess(a.reliability_score, LOW_RELIABILITY_THRESHOLD)
                      THEN << <<"lower", "reliability", "score", "(">>
                              \o <<Percent(a.reliability_score)>> \o <<"%)">> >>
                      ELSE <<>>) \o
                     (IF tos.value
                      THEN << <<"TOS", "restrictions", "that", "may",
                                "conflict", "with", "your", "use", "case">> >>
                      ELSE <<>>) \o
                     (IF AnyKeyword(instability_keywords, a.limitations)
                      THEN << <<"potential", "stability", "concerns",
                                "(unofficial", "API)">> >>
                      ELSE <<>>))

\* ', '.join(dt.value for dt in data_types)
JoinValues(data_types) ==
    Join(<<",">>, [i \in 1..Len(data_types) |-> Words(data_types[i])])

\* the value of rate_limits.get("requests_per_minute", default) in an f-string
RpmText(a) ==
    IF "requests_per_minute" \in DOMAIN a.rate_limits
    THEN ToString(a.rate_limits["requests_per_minute"]) ELSE "N/A"

generate_next_steps(a, c) ==
    IF ~Has(a, "name") \/ ~Has(a, "rate_limits") \/ ~Has(a, "tos_restrictions")
    THEN Raise("AttributeError", <<>>)
    ELSE Ok(
        << IF c.budget = "Free"
           THEN <<"Sign", "up", "for", "a", "free">> \o Words(a.name)
                \o <<"account", "and", "get", "your", "API", "key">>
           ELSE <<"Visit">> \o Words(a.name)
                \o <<"'s", "pricing", "page", "and", "select", "the">>
                \o Words(c.budget) \o <<"plan">>,
           <<"Review">> \o Words(a.name)
           \o <<"'s", "API", "documentation", "for">>
           \o JoinValues(c.data_types) \o <<"endpoints">> >> \o
        (IF DOMAIN a.rate_limits # {}
         THEN << <<"Plan", "your", "request", "strategy", "around", "the">>
                 \o <<RpmText(a)>>
                 \o <<"requests", "/", "minute", "rate", "limit">> >>
         ELSE <<>>) \o
        (IF a.tos_restrictions # <<>>
         THEN IF c.use_case = "Trading Bot"
              THEN << <<"Review", "the", "Terms", "of", "Service", "to",
                        "ensure", "compliance", "with", "commercial", "use",
                        "requirements">> >>
              ELSE << <<"Review", "the", "Terms", "of", "Service", "for",
                        "any", "attribution", "or", "usage", "requirements">> >>
         ELSE <<>>))

\* (mutation) no step stands in for the steps that could not be built
DefaultNextSteps_none(a) == <<>>

\* the steps generate_verdict falls back on when generate_next_steps raises
DefaultNextSteps(a) ==
    << <<"Sign", "up", "for", "a">> \o Words(a.name)
       \o <<"account", "and", "get", "your", "API", "key">>,
       <<"Review">> \o Words(a.name)
       \o <<"'s", "documentation", "for", "your", "data", "needs">>,
       <<"Test", "the", "API", "with", "a", "small", "sample", "before",
         "full", "implementation">> >>

\* rate_limits.get("requests_per_minute", 0)
Rpm(a) == DictGet(a.rate_limits, "requests_per_minute", 0)

\* the declaration order of DataType and its reverse: two of the orders in
\* which a set of DataType members is iterated
SetOrders ==
    { <<"Stocks", "Crypto", "Forex", "Options", "Commodities">>,
      <<"Commodities", "Options", "Forex", "Crypto", "Stocks">> }

\* generate_trade_offs reaches its end: every attribute it reads is there
TradeOffsReads(top, second, c) ==
    /\ Has(top, "reliability_score") /\ Has(second, "reliability_score")
    /\ FLess(top.reliability_score, second.reliability_score) => Has(second, "name")
    /\ Has(top, "rate_limits") /\ Has(second, "rate_limits")
    /\ Rpm(second) > Rpm(top) => Has(second, "name")
    /\ Has(top, "data_coverage") /\ Has(second, "data_coverage")
    /\ (\E dt \in DataType : In(dt, second.data_coverage) /\ ~In(dt, top.data_coverage))
          => Has(second, "name")
    /\ c.budget = "Free" =>
          /\ Has(top, "pricing")
          /\ DictGet(top.pricing, "Free", FALSE) =>
                /\ Has(second, "pricing")
                /\ ~DictGet(second.pricing, "Free", FALSE) =>
                      Has(top, "name") /\ Has(second, "name")
    /\ Has(top, "strengths")
    /\ top.strengths # <<>> =>
          /\ Has(second, "strengths")
          /\ second.strengths # <<>> => Has(top, "name")

generate_trade_offs(top_api, runner_up, c, order) ==
    LET top == top_api.api
        second == runner_up.api
    IN  IF ~TradeOffsReads(top, second, c) THEN Raise("AttributeError", <<>>)
        ELSE LET second_only == SelectSeq(order,
                     LAMBDA dt : In(dt, second.data_coverage) /\ ~In(dt, top.data_coverage))
             IN Ok(
            (IF FLess(top.reliability_score, second.reliability_score)
             THEN << <<"Choose", "**">> \o Words(second.name)
                     \o <<"**", "if", "you", "need", "higher", "reliability",
                       "(">>
                     \o <<Percent(second.reliability_score)>> \o <<"%", "vs">>
                     \o <<Percent(top.reliability_score)>> \o <<"%)">> >>
             ELSE <<>>) \o
            (IF Rpm(second) > Rpm(top)
             THEN << <<"Choose", "**">> \o Words(second.name)
                     \o <<"**", "if", "you", "need", "higher", "rate",
                       "limits", "(">>
                     \o <<ToString(Rpm(second))>> \o <<"vs">>
                     \o <<ToString(Rpm(top))>>
                     \o <<"requests", "/", "minute)">> >>
             ELSE <<>>) \o
            (IF second_only # <<>>
             THEN << <<"Choose", "**">> \o Words(second.name)
                     \o <<"**", "if", "you", "also", "need">>
                     \o JoinValues(second_only) \o <<"data">> >>
             ELSE <<>>) \o
            (IF /\ c.budget = "Free"
                /\ DictGet(top.pricing, "Free", FALSE)
                /\ ~DictGet(second.pricing, "Free", FALSE)
             THEN << <<"**">> \o Words(top.name)
                     \o <<"**", "offers", "a", "free", "tier", "while", "**">>
                     \o Words(second.name) \o <<"**", "requires", "payment">> >>
             ELSE <<>>) \o
            (IF top.strengths # <<>> /\ second.strengths # <<>>
             THEN << <<"**">> \o Words(top.name) \o <<"**", "excels", "at:">>
                     \o Lower(Words(top.strengths[1])) >>
             ELSE <<>>))

\* (mutation) the Verdict of an empty list suggests no next step
NoApisVerdict_no_steps ==
    Verdict(<<"No", "APIs", "available", "for", "evaluation.">>, <<>>, <<>>, "", <<>>)

\* the Verdict of an empty list
NoApisVerdict ==
    Verdict(<<"No", "APIs", "available", "for", "evaluation.">>, <<>>,
            << <<"Please", "check", "your", "constraints", "and", "try",
                 "again.">> >>, "", <<>>)

\* the Verdict of the outer except clause
ErrorVerdict ==
    Verdict(<<"**", "Unable", "to", "generate", "detailed", "recommendation",
              "**", "due", "to", "a", "system", "error.", "Please", "try",
              "again.">>,
            << <<"System", "encountered", "an", "error", "during",
                 "analysis">> >>,
            << <<"Try", "refreshing", "the", "page", "and", "submitting",
                 "your", "constraints", "again">>,
               <<"If", "the", "problem", "persists,", "consider", "manually",
                 "reviewing", "the", "API", "options">>,
               <<"Contact", "support", "if", "you", "continue", "to",
                 "experience", "issues">> >>,
            "", <<>>)

\* recommendation_parts joined with blanks
RecommendationText(winner, c) ==
    <<"**">> \o Words(winner.api.name)
    \o <<"**", "is", "your", "best", "match", "with", "a", "**">>
    \o <<ToString(winner.compatibility_percentage)>>
    \o <<"%", "compatibility", "score", "**", ".">> \o
    (IF winner.api.strengths # <<>>
     THEN <<"Key", "advantage:">> \o Words(winner.api.strengths[1])
     ELSE <<>>) \o
    (IF c.budget = "Free"
     THEN IF DictGet(winner.api.pricing, "Free", FALSE)
          THEN <<"This", "API", "offers", "a", "**", "free", "tier", "**",
                 "that", "meets", "your", "budget", "requirements.">>
          ELSE <<>>
     ELSE <<"This", "API", "supports", "your", "**">> \o Words(c.budget)
          \o <<"**", "budget", "tier.">>)

\* (mutation) an alternative is named although no reason was found
Alternative_without_reasons(winner, has_runner_up, runner_up, c) ==
    LET none == [alternative_api |-> "", alternative_reason |-> <<>>]
        significant == has_significant_limitations(winner, c)
        reasons == get_limitation_reasons(winner, c)
    IN  IF significant.raised THEN none
        ELSE IF ~(significant.value /\ has_runner_up) THEN none
        ELSE IF reasons.raised THEN none
        ELSE IF ~Has(runner_up.api, "name") THEN none
        ELSE IF ~Has(winner.api, "name") \/ ~Has(runner_up.api, "reliability_score")
             THEN [alternative_api |-> runner_up.api.name, alternative_reason |-> <<>>]
        ELSE [alternative_api |-> runner_up.api.name,
              alternative_reason |->
                  <<"Consider", "**">> \o Words(runner_up.api.name)
                  \o <<"**", "as", "an", "alternative", "due", "to">>
                  \o Words(winner.api.name) \o <<"'s">>
                  \o Join(<<"and">>, reasons.value) \o <<".">>
                  \o Words(runner_up.api.name) \o <<"has", "a">>
                  \o <<ToString(runner_up.compatibility_percentage)>>
                  \o <<"%", "compatibility", "score", "and">>
                  \o <<Percent(runner_up.api.reliability_score)>>
                  \o <<"%", "reliability.">>]

\* The try block that looks for an alternative: the two fields as they stand
\* when the block is left, by its end or by an exception.
Alternative(winner, has_runner_up, runner_up, c) ==
    LET none == [alternative_api |-> "", alternative_reason |-> <<>>]
        significant == has_significant_limitations(winner, c)
        reasons == get_limitation_reasons(winner, c)
    IN  IF significant.raised THEN none
        ELSE IF ~(significant.value /\ has_runner_up) THEN none
        ELSE IF reasons.raised THEN none
        ELSE IF reasons.value = <<>> THEN none
        ELSE IF ~Has(runner_up.api, "name") THEN none
        ELSE IF ~Has(winner.api, "name") \/ ~Has(runner_up.api, "reliability_score")
             THEN [alternative_api |-> runner_up.api.name, alternative_reason |-> <<>>]
        ELSE [alternative_api |-> runner_up.api.name,
              alternative_reason |->
                  <<"Consider", "**">> \o Words(runner_up.api.name)
                  \o <<"**", "as", "an", "alternative", "due", "to">>
                  \o Words(winner.api.name) \o <<"'s">>
                  \o Join(<<"and">>, reasons.value) \o <<".">>
                  \o Words(runner_up.api.name) \o <<"has", "a">>
                  \o <<ToString(runner_up.compatibility_percentage)>>
                  \o <<"%", "compatibility", "score", "and">>
                  \o <<Percent(runner_up.api.reliability_score)>>
                  \o <<"%", "reliability.">>]

generate_verdict(top_apis_arg, c, order) ==
    IF top_apis_arg = <<>> THEN Ok(NoApisVerdict)
    ELSE LET winner == top_apis_arg[1]
             has_runner_up == Len(top_apis_arg) > 1
             runner_up == top_apis_arg[IF has_runner_up THEN 2 ELSE 1]
             \* the statements no inner try covers
             body_raises ==
                 \/ ~Has(winner.api, "name")
                 \/ has_runner_up /\ ~Has(runner_up.api, "name")
                 \/ ~Has(winner.api, "strengths")
                 \/ c.budget = "Free" /\ ~Has(winner.api, "pricing")
             trade_offs == IF has_runner_up
                           THEN generate_trade_offs(winner, runner_up, c, order)
                           ELSE Ok(<<>>)
             next_steps == generate_next_steps(winner.api, c)
             alt == Alternative(winner, has_runner_up, runner_up, c)
         IN  IF body_raises
             \* the except clause builds its log record from top_apis[0].api.name
             THEN IF ~Has(top_apis_arg[1].api, "name")
                  THEN Raise("AttributeError", ErrorVerdict)
                  ELSE Ok(ErrorVerdict)
             ELSE Ok(Verdict(RecommendationText(winner, c),
                             IF trade_offs.raised THEN <<>> ELSE trade_offs.value,
                             IF next_steps.raised THEN DefaultNextSteps(winner.api)
                             ELSE next_steps.value,
                             alt.alternative_api, alt.alternative_reason))

(***************************************************************************)
(* The fallback path                                                       *)
(* `catalog` is what a call of get_all_apis() yields: the list, or the     *)
(* exception it raises.                                                    *)
(***************************************************************************)
\* the attributes a constraints object lacks (all of them when it is None)
ConstraintsAbsent(c) == IF "absent" \in DOMAIN c THEN c.absent ELSE {}

\* list.sort(key=..., reverse=True) on [key, item] pairs: stable
RECURSIVE InsertKeyed(_, _)
InsertKeyed(sorted, x) ==
    IF sorted = <<>> THEN <<x>>
    ELSE IF FLess(Head(sorted).key, x.key)
         THEN <<x>> \o sorted
         ELSE <<Head(sorted)>> \o InsertKeyed(Tail(sorted), x)

RECURSIVE SortKeyed(_, _)
SortKeyed(list, sorted) ==
    IF list = <<>> THEN sorted
    ELSE SortKeyed(Tail(list), InsertKeyed(sorted, Head(list)))

\* fallback_scores.sort(key=lambda x: x.api.reliability_score, reverse=True)
SortScoresByReliability(list) ==
    LET keyed == [i \in 1..Len(list) |->
                     [key |-> list[i].api.reliability_score, item |-> list[i]]]
        sorted == SortKeyed(keyed, <<>>)
    IN  [i \in 1..Len(sorted) |-> sorted[i].item]

\* all_apis.sort(key=lambda x: x.reliability_score, reverse=True)
SortApisByReliability(list) ==
    LET keyed == [i \in 1..Len(list) |->
                     [key |-> list[i].reliability_score, item |-> list[i]]]
        sorted == SortKeyed(keyed, <<>>)
    IN  [i \in 1..Len(sorted) |-> sorted[i].item]

budget_compatible(a, c) == DictGet(a.pricing, c.budget, FALSE)

data_compatible(a, c) ==
    \E i \in 1..Len(c.data_types) : In(c.data_types[i], a.data_coverage)

FallbackCategoryScores(budget_score, data_score, other) ==
    "budget" :> budget_score @@ "data_types" :> data_score @@
    "frequency" :> other @@ "use_case" :> other

\* (mutation) an entry is kept when either the budget or a data type fits
RECURSIVE FallbackLoop_either(_, _, _, _)
FallbackLoop_either(items, c, i, acc) ==
    IF i > Len(items) THEN Ok(acc)
    ELSE LET a == items[i]
         IN  IF \/ ~Has(a, "pricing") \/ "budget" \in ConstraintsAbsent(c)
                \/ "data_types" \in ConstraintsAbsent(c)
                \/ c.data_types # <<>> /\ ~Has(a, "data_coverage")
             THEN Raise("AttributeError", <<>>)
             ELSE IF ~budget_compatible(a, c) /\ ~data_compatible(a, c)
                  THEN FallbackLoop_either(items, c, i + 1, acc)
             ELSE IF ~Has(a, "reliability_score") THEN Raise("AttributeError", <<>>)
             ELSE FallbackLoop_either(items, c, i + 1, Append(acc,
                      APIScore(a, FMul(a.reliability_score, Float(100, 1)),
                               FallbackCategoryScores(
                                   IF budget_compatible(a, c) THEN F100 ELSE F0,
                                   IF data_compatible(a, c) THEN F100 ELSE F0, F75),
                               PyInt(FMul(a.reliability_score, Float(100, 1))), 0)))

\* The for loop of the try block: the entries that pass the basic
\* compatibility check, or the exception that leaves the loop.
RECURSIVE FallbackLoop(_, _, _, _)
FallbackLoop(items, c, i, acc) ==
    IF i > Len(items) THEN Ok(acc)
    ELSE LET a == items[i]
         IN  IF \/ ~Has(a, "pricing") \/ "budget" \in ConstraintsAbsent(c)
                \/ "data_types" \in ConstraintsAbsent(c)
                \/ c.data_types # <<>> /\ ~Has(a, "data_coverage")
             THEN Raise("AttributeError", <<>>)
             ELSE IF ~budget_compatible(a, c) \/ ~data_compatible(a, c)
                  THEN FallbackLoop(items, c, i + 1, acc)
             ELSE IF ~Has(a, "reliability_score") THEN Raise("AttributeError", <<>>)
             ELSE FallbackLoop(items, c, i + 1, Append(acc,
                      APIScore(a, FMul(a.reliability_score, Float(100, 1)),
                               FallbackCategoryScores(
                                   IF budget_compatible(a, c) THEN F100 ELSE F0,
                                   IF data_compatible(a, c) THEN F100 ELSE F0, F75),
                               PyInt(FMul(a.reliability_score, Float(100, 1))), 0)))

\* all_apis[:3]
TopCount == 3

FirstN(list, n) == SubSeq(list, 1, Min(n, Len(list)))

\* (mutation) the most reliable entries keep the scores of a compatible entry
MostReliable_as_compatible(all_apis) ==
    IF \E i \in 1..Len(all_apis) : ~Has(all_apis[i], "reliability_score")
    THEN Raise("AttributeError", <<>>)
    ELSE LET top == FirstN(SortApisByReliability(all_apis), TopCount)
         IN  Ok([i \in 1..Len(top) |->
                    APIScore(top[i], FMul(top[i].reliability_score, Float(100, 1)),
                             FallbackCategoryScores(F100, F100, F75),
                             PyInt(FMul(top[i].reliability_score, Float(100, 1))), i)])

\* The branch taken when no entry is compatible: the most reliable entries
\* of the whole catalog, whatever they support.
MostReliable(all_apis) ==
    IF \E i \in 1..Len(all_apis) : ~Has(all_apis[i], "reliability_score")
    THEN Raise("AttributeError", <<>>)
    ELSE LET top == FirstN(SortApisByReliability(all_apis), TopCount)
         IN  Ok([i \in 1..Len(top) |->
                    APIScore(top[i], FMul(top[i].reliability_score, Float(100, 1)),
                             FallbackCategoryScores(Float(50, 1), Float(50, 1), Float(50, 1)),
                             PyInt(FMul(top[i].reliability_score, Float(100, 1))), i)])

\* the try block of get_fallback_recommendations
FallbackTry(c, catalog_arg) ==
    IF catalog_arg.raised THEN Raise(catalog_arg.error, <<>>)
    ELSE LET loop == FallbackLoop(catalog_arg.value, c, 1, <<>>)
         IN  IF loop.raised THEN loop
             ELSE IF loop.value # <<>>
                  THEN Ok(AssignRanks(SortScoresByReliability(loop.value)))
             ELSE MostReliable(catalog_arg.value)

reliable_names == <<"Alpha Vantage", "Polygon.io", "Finnhub">>

\* (mutation) the last resort has no except clause of its own
HardcodedFallback_unguarded(catalog_arg) ==
    IF catalog_arg.raised THEN Raise(catalog_arg.error, <<>>)
    ELSE IF \E i \in 1..Len(catalog_arg.value) : ~Has(catalog_arg.value[i], "name")
         THEN Raise("AttributeError", <<>>)
    ELSE LET named == SelectSeq(catalog_arg.value, LAMBDA a : In(a.name, reliable_names))
             reliable_apis == IF named = <<>> THEN FirstN(catalog_arg.value, TopCount)
                              ELSE named
         IN  Ok([i \in 1..Len(reliable_apis) |->
                    APIScore(reliable_apis[i], F75,
                             FallbackCategoryScores(F75, F75, F75), 75, i)])

\* The except clause of get_fallback_recommendations: three providers by
\* name, or nothing when this fails as well.
HardcodedFallback(catalog_arg) ==
    IF catalog_arg.raised THEN Ok(<<>>)
    ELSE IF \E i \in 1..Len(catalog_arg.value) : ~Has(catalog_arg.value[i], "name")
         THEN Ok(<<>>)
    ELSE LET named == SelectSeq(catalog_arg.value, LAMBDA a : In(a.name, reliable_names))
             reliable_apis == IF named = <<>> THEN FirstN(catalog_arg.value, TopCount)
                              ELSE named
         IN  Ok([i \in 1..Len(reliable_apis) |->
                    APIScore(reliable_apis[i], F75,
                             FallbackCategoryScores(F75, F75, F75), 75, i)])

get_fallback_recommendations(c, catalog_arg) ==
    LET try == FallbackTry(c, catalog_arg)
    IN  IF try.raised THEN HardcodedFallback(catalog_arg) ELSE try

\* the Verdict generate_fallback_verdict builds around the first entry
FallbackWinnerVerdict(winner) ==
    Verdict(<<"**">> \o Words(winner.api.name)
            \o <<"**", "is", "recommended", "based", "on", "reliability",
              "(system", "is", "operating", "in", "fallback", "mode).",
              "This", "API", "has", "a", "**">>
            \o <<Percent(winner.api.reliability_score)>>
            \o <<"%", "reliability", "score", "**", "and", "should", "meet",
              "your", "basic", "requirements.">>,
            << <<"System", "is", "operating", "in", "fallback", "mode", "-",
                 "detailed", "analysis", "unavailable">> >>,
            << <<"Visit">> \o Words(winner.api.name)
               \o <<"'s", "website", "to", "learn", "more", "about", "their",
                 "offerings">>,
               <<"Review", "their", "pricing", "and", "terms", "of",
                 "service", "carefully">>,
               <<"Test", "their", "API", "with", "a", "small", "sample",
                 "before", "full", "implementation">>,
               <<"Consider", "trying", "the", "system", "again", "later",
                 "for", "detailed", "analysis">> >>,
            "", <<>>)

\* the Verdict generate_fallback_verdict returns when there is no entry
NoFallbackVerdict ==
    Verdict(<<"**", "Unable", "to", "provide", "specific", "recommendations",
              "**", "due", "to", "system", "issues.", "Please", "try",
              "again", "later", "or", "consider", "these", "general",
              "options.">>,
            << <<"System", "is", "operating", "in", "fallback", "mode", "-",
                 "detailed", "analysis", "unavailable">> >>,
            << <<"Try", "refreshing", "the", "page", "and", "submitting",
                 "your", "constraints", "again">>,
               <<"Consider", "Alpha", "Vantage", "for", "free", "tier",
                 "usage">>,
               <<"Consider", "Polygon.io", "for", "professional", "/",
                 "commercial", "use">>,
               <<"Contact", "support", "if", "issues", "persist">> >>,
            "", <<>>)

\* the Verdict of the except clause of generate_fallback_verdict
LastResortVerdict ==
    Verdict(<<"**", "System", "temporarily", "unavailable", "**", "-",
              "please", "try", "again", "later.">>,
            << <<"All", "recommendation", "systems", "are", "currently",
                 "experiencing", "issues">> >>,
            << <<"Please", "try", "again", "in", "a", "few", "minutes">>,
               <<"Check", "your", "internet", "connection">>,
               <<"Contact", "support", "if", "the", "problem", "persists">> >>,
            "", <<>>)

generate_fallback_verdict(c, catalog_arg) ==
    LET fallback_apis == get_fallback_recommendations(c, catalog_arg)
    IN  IF fallback_apis.raised THEN Ok(LastResortVerdict)
        ELSE IF fallback_apis.value # <<>>
             THEN LET winner == fallback_apis.value[1]
                  IN  IF ~Has(winner.api, "name") \/ ~Has(winner.api, "reliability_score")
                      THEN Ok(LastResortVerdict)
                      ELSE Ok(FallbackWinnerVerdict(winner))
        ELSE Ok(NoFallbackVerdict)

(***************************************************************************)
(* Validation of the form (app.py)                                         *)
(* In a message a punctuation mark that follows a word is a word of its    *)
(* own; the value put into the message is one word.                        *)
(***************************************************************************)
\* the pair (is_valid, error_message); error_message is None or a text
Validation(is_valid, is_none, text) ==
    [is_valid |-> is_valid, error_message |-> [is_none |-> is_none, text |-> text]]

validate_data_types(data_types) ==
    IF data_types = <<>>
    THEN Validation(FALSE, FALSE, <<"Please", "select", "at", "least", "one",
                                    "data", "type", ".">>)
    ELSE Validation(TRUE, TRUE, <<>>)

\* the element at which `for dt in data_types` returns
FirstInvalidType(data_types) ==
    data_types[CHOOSE i \in 1..Len(data_types) :
                  /\ data_types[i] \notin DataType
                  /\ \A j \in 1..(i - 1) : data_types[j] \in DataType]

\* (mutation) the frequency is looked at before the data types
validate_constraints_frequency_first(budget, data_types, frequency, use_case) ==
    IF budget \notin BudgetTier
    THEN Validation(FALSE, FALSE, <<"Invalid", "budget", "selection", ":", budget>>)
    ELSE IF frequency \notin FrequencyTier
    THEN Validation(FALSE, FALSE,
                    <<"Invalid", "frequency", "selection", ":", frequency>>)
    ELSE IF ~validate_data_types(data_types).is_valid
    THEN validate_data_types(data_types)
    ELSE IF \E i \in 1..Len(data_types) : data_types[i] \notin DataType
    THEN Validation(FALSE, FALSE,
                    <<"Invalid", "data", "type", ":", FirstInvalidType(data_types)>>)
    ELSE IF use_case \notin UseCase
    THEN Validation(FALSE, FALSE, <<"Invalid", "use", "case", ":", use_case>>)
    ELSE Validation(TRUE, TRUE, <<>>)

validate_constraints(budget, data_types, frequency, use_case) ==
    IF budget \notin BudgetTier
    THEN Validation(FALSE, FALSE, <<"Invalid", "budget", "selection", ":", budget>>)
    ELSE IF ~validate_data_types(data_types).is_valid
    THEN validate_data_types(data_types)
    ELSE IF \E i \in 1..Len(data_types) : data_types[i] \notin DataType
    THEN Validation(FALSE, FALSE,
                    <<"Invalid", "data", "type", ":", FirstInvalidType(data_types)>>)
    ELSE IF frequency \notin FrequencyTier
    THEN Validation(FALSE, FALSE,
                    <<"Invalid", "frequency", "selection", ":", frequency>>)
    ELSE IF use_case \notin UseCase
    THEN Validation(FALSE, FALSE, <<"Invalid", "use", "case", ":", use_case>>)
    ELSE Validation(TRUE, TRUE, <<>>)

\* BudgetTier(budget), DataType(dt), ...: the member with that value, or
\* ValueError
EnumOf(members, value) ==
    IF value \in members THEN Ok(value) ELSE Raise("ValueError", value)

normalize_constraints(budget, data_types, frequency, use_case) ==
    LET b == EnumOf(BudgetTier, budget)
        d == [i \in 1..Len(data_types) |-> EnumOf(DataType, data_types[i])]
        f == EnumOf(FrequencyTier, frequency)
        u == EnumOf(UseCase, use_case)
    IN  IF b.raised \/ (\E i \in 1..Len(d) : d[i].raised) \/ f.raised \/ u.raised
        THEN Raise("ValueError", [budget |-> "", data_types |-> <<>>,
                                  frequency |-> "", use_case |-> ""])
        ELSE Ok([budget |-> b.value,
                 data_types |-> [i \in 1..Len(d) |-> d[i].value],
                 frequency |-> f.value, use_case |-> u.value])

(***************************************************************************)
(* The page (app.py)                                                       *)
(* What a display function puts on the page is a sequence of items         *)
(* [kind, content]; pictographs and bullet marks are left out of the       *)
(* texts.  A display function yields the items it has shown and whether it *)
(* was left by an exception.                                               *)
(***************************************************************************)
Item(kind, content) == [kind |-> kind, content |-> content]

Shown(items) == [raised |-> FALSE, error |-> "", value |-> items]

ShownUntilRaise(e, items) == [raised |-> TRUE, error |-> e, value |-> items]

\* api.name of every entry
Names(list) == [i \in 1..Len(list) |-> list[i].api.name]

display_constraint_summary(c) ==
    Shown(<< Item("info",
                  <<"**", "Analyzing", "APIs", "for", "your", "requirements:",
                    "**", "**", "Budget:", "**">> \o Words(c.budget)
                  \o <<"**", "Data", "Types:", "**">> \o JoinValues(c.data_types)
                  \o <<"**", "Frequency:", "**">> \o Words(c.frequency)
                  \o <<"**", "Use", "Case:", "**">> \o Words(c.use_case)) >>)

\* elapsed against the target: "slow" above it, "acceptable" above three
\* quarters of it, "fast" below (nothing is shown unless the logger is set
\* to DEBUG)
display_performance_feedback(class) ==
    IF class = "slow"
    THEN Shown(<< Item("error", <<"**", "Performance", "Issue", "**">>) >>)
    ELSE IF class = "acceptable"
    THEN Shown(<< Item("info", <<"Recommendation", "Generation", "completed">>) >>)
    ELSE Shown(<<>>)

display_verdict(v) ==
    Shown(<< Item("markdown", <<"###", "**", "Recommendation", "**">>),
             Item("verdict", v.recommendation_text) >>
          \o (IF v.trade_offs # <<>>
              THEN << Item("markdown", <<"**", "Trade", "-", "offs", "to",
                                         "consider:", "**">>) >>
                   \o [i \in 1..Len(v.trade_offs) |->
                          Item("trade_off", v.trade_offs[i])]
              ELSE <<>>)
          \o (IF v.alternative_api # "" /\ v.alternative_reason # <<>>
              THEN << Item("info", <<"**", "Alternative", "Option", "**", ":">>
                                   \o v.alternative_reason) >>
              ELSE <<>>)
          \o (IF v.next_steps # <<>>
              THEN << Item("markdown", <<"**", "Next", "steps:", "**">>) >>
                   \o [i \in 1..Len(v.next_steps) |->
                          Item("next_step", v.next_steps[i])]
              ELSE <<>>)
          \o << Item("markdown", <<"---">>) >>)

\* the attributes display_results reads of every entry
ResultsAttributes == {"name", "strengths", "limitations"}

display_results(list) ==
    IF list = <<>>
    THEN Shown(<< Item("warning", <<"No", "APIs", "available", "for",
                                    "evaluation.">>) >>)
    ELSE LET header == << Item("markdown", <<"###", "**", "Winner", "**">>) >>
         IN  IF \E i \in 1..Len(list) : list[i].api.absent \cap ResultsAttributes # {}
             THEN ShownUntilRaise("AttributeError", header)
             ELSE Shown(header \o << Item("results", Names(list)) >>)

\* the attributes display_trade_off_analysis reads of every entry
TableAttributes ==
    {"name", "pricing", "data_coverage", "rate_limits", "strengths",
     "limitations", "tos_restrictions", "reliability_score"}

display_trade_off_analysis(list, c) ==
    IF list = <<>> THEN Shown(<<>>)
    ELSE LET header == << Item("markdown", <<"###", "**", "Trade", "-", "off",
                                             "Analysis", "**">>) >>
         IN  IF \E i \in 1..Len(list) : list[i].api.absent \cap TableAttributes # {}
             THEN ShownUntilRaise("AttributeError", header)
             ELSE Shown(header \o << Item("table", Names(list)) >>
                        \o (IF c.use_case = "Trading Bot"
                            THEN << Item("warning", <<"**", "Commercial", "Use",
                                                      "Notice", "**">>) >>
                            ELSE <<>>))

\* the items of main itself
RecommendationsHeader == Item("subheader", <<"Recommendations">>)

FallbackHeader == Item("subheader", <<"Fallback", "Recommendations">>)

FallbackWarning ==
    Item("warning", <<"**", "Primary", "analysis", "system", "unavailable",
                      "**", "-", "using", "fallback", "recommendations",
                      "based", "on", "reliability", "scores.">>)

FallbackNote ==
    Item("info", <<"**", "Note", "**", ":", "These", "recommendations", "are",
                   "based", "on", "reliability", "scores", "only.", "For",
                   "detailed", "analysis", "including", "trade", "-", "offs",
                   "and", "comprehensive", "scoring,", "please", "try",
                   "again", "later", "when", "the", "system", "is", "fully",
                   "operational.">>)

Apology ==
    Item("error", <<"**", "Unable", "to", "generate", "recommendations", "**",
                    "We", "encountered", "an", "issue", "while", "analyzing",
                    "the", "APIs.", "Please", "try", "again", "with",
                    "different", "constraints", "or", "contact", "support",
                    "if", "the", "problem", "persists.">>)

GeneralTips ==
    Item("info", <<"**", "In", "the", "meantime,", "here", "are", "some",
                   "general", "recommendations:", "**",
                   "**", "For", "beginners", "**", ":", "Try", "Alpha",
                   "Vantage", "(generous", "free", "tier)",
                   "**", "For", "trading", "bots", "**", ":", "Consider",
                   "Polygon.io", "or", "Finnhub", "(commercial", "use",
                   "allowed)",
                   "**", "For", "research", "**", ":", "Yahoo", "Finance",
                   "(free", "but", "unofficial)", "or", "Alpha", "Vantage",
                   "**", "For", "enterprise", "**", ":", "Quandl", "or",
                   "Polygon.io", "(institutional", "grade)">>)

Welcome ==
    Item("markdown", <<"**", "Get", "started", "**", "by", "entering", "your",
                       "requirements", "in", "the", "sidebar", "and",
                       "clicking", "**", "Find", "Best", "APIs", "**", ".">>)

\* score_apis(constraints): the catalog is what get_all_apis() yields
score_apis_default(c, catalog_arg) ==
    IF catalog_arg.raised THEN Raise(catalog_arg.error, <<>>)
    ELSE score_apis(c, [is_none |-> FALSE, items |-> catalog_arg.value])

(***************************************************************************)
(* Inputs                                                                  *)
(***************************************************************************)
SeqsUpTo(S, n) == UNION {[1..k -> S] : k \in 0..n}

\* the record of test_score_apis_handles_corrupted_api_data
CorruptedAPI ==
    [ name |-> "Corrupted API",
      pricing |-> <<>>,
      data_coverage |-> <<>>,
      frequency_support |-> <<>>,
      rate_limits |-> <<>>,
      strengths |-> <<>>,
      limitations |-> <<>>,
      tos_restrictions |-> <<>>,
      reliability_score |-> Float(-1, 1),
      absent |-> {} ]

\* a record whose tos_restrictions attribute is missing
MalformedAPI == [get_all_apis[6] EXCEPT !.absent = {"tos_restrictions"}]

\* a list element that is no APIInfo at all (None, a dict)
NonRecord ==
    [CorruptedAPI EXCEPT !.name = "",
        !.absent = {"name", "pricing", "data_coverage", "frequency_support",
                    "rate_limits", "strengths", "limitations",
                    "tos_restrictions", "reliability_score"}]

TestApis == <<get_all_apis[1], CorruptedAPI, MalformedAPI, NonRecord>>

RequestTypes == {"Stocks", "Options"}

ConstraintsInputs ==
    [budget : BudgetTier, data_types : SeqsUpTo(RequestTypes, MaxTypes),
     frequency : FrequencyTier, use_case : UseCase]

ApisInputs ==
    {[is_none |-> TRUE, items |-> <<>>]} \cup
    {[is_none |-> FALSE, items |-> [i \in 1..Len(s) |-> TestApis[s[i]]]] :
        s \in SeqsUpTo(1..Len(TestApis), MaxApis)}

TotalScoreInputs ==
    {Float(k, 4) : k \in (0 - MaxQuarter)..(400 + MaxQuarter)} \cup {PosInf, NegInf, NaN}

TosClauses ==
    { <<"Commercial", "use", "explicitly", "prohibited">>,
      <<"Free", "tier", "for", "personal", "/", "non", "-", "commercial", "use", "only">>,
      <<"Personal", "/", "educational", "use", "only">>,
      <<"COMMERCIAL", "USE", "ALLOWED">>,
      <<"Commercial", "use", "included", "in", "subscription">>,
      <<"Free", "tier", "allows", "commercial", "use", "with", "attribution">>,
      <<"No", "redistribution", "allowed">>,
      <<"Commercial", "use", "requires", "paid", "plan">> }

UseCaseApis ==
    {[CorruptedAPI EXCEPT !.name = "Drawn", !.tos_restrictions = t] :
        t \in SeqsUpTo(TosClauses, MaxClauses)}

NoConstraints ==
    [budget |-> "Free", data_types |-> <<>>, frequency |-> "Real-time",
     use_case |-> "Research/Analysis"]

NoApis == [is_none |-> FALSE, items |-> <<>>]

(***************************************************************************)
(* Inputs of the verdict generator and of the fallback path                *)
(***************************************************************************)
\* a reliable record one of whose limitations is a licence clause
LimitedAPI ==
    [get_all_apis[1] EXCEPT !.name = "Limited API",
        !.limitations = << <<"Non", "-", "commercial", "use", "only", "on",
                             "the", "free", "plan">> >>]

\* a record whose reliability_score attribute is missing
NoReliabilityAPI == [get_all_apis[4] EXCEPT !.absent = {"reliability_score"}]

VerdictApis ==
    <<get_all_apis[1], get_all_apis[3], get_all_apis[2], get_all_apis[6],
      LimitedAPI, NoReliabilityAPI, MalformedAPI, NonRecord>>

\* an element of a ranked list: the record with the scores score_apis gives
\* it, or with zero scores when it cannot be scored
RankedEntry(a, c, rank) ==
    LET one == ScoreOne(a, c)
    IN  IF one.raised THEN APIScore(a, F0, <<>>, 0, rank)
        ELSE [one.value EXCEPT !.recommendation_rank = rank]

RankedLists(c) ==
    {[i \in 1..Len(s) |-> RankedEntry(VerdictApis[s[i]], c, i)] :
        s \in SeqsUpTo(1..Len(VerdictApis), MaxRanked)}

VerdictConstraints ==
    [budget : BudgetTier, data_types : {<<"Stocks">>, <<"Stocks", "Options">>},
     frequency : {"End-of-day"}, use_case : UseCase]

\* constraints=None
NoneConstraints ==
    [budget |-> "", data_types |-> <<>>, frequency |-> "", use_case |-> "",
     absent |-> {"budget", "data_types", "frequency", "use_case"}]

FallbackConstraints ==
    [budget : BudgetTier, data_types : SeqsUpTo(DataType, MaxFallbackTypes),
     frequency : {"End-of-day"}, use_case : {"Research/Analysis"},
     absent : {{}}] \cup {NoneConstraints}

\* a catalog whose most reliable record has no name
NamelessCatalog ==
    <<get_all_apis[1], [get_all_apis[6] EXCEPT !.absent = {"name"}]>>

\* what get_all_apis() yields: the shipped catalog, an exception, a catalog
\* with a damaged record
CatalogInputs ==
    {Ok(get_all_apis), Raise("RuntimeError", <<>>), Ok(NamelessCatalog)}

\* values a form can send: members of the enums and strings that are none
FormTypes == {"Stocks", "Crypto", "Bonds"}

FormInputs ==
    [budget : {"Free", "Enterprise", "Premium", ""},
     data_types : SeqsUpTo(FormTypes, MaxFormTypes),
     frequency : {"Real-time", "Hourly"},
     use_case : {"Trading Bot", "Gambling"}]

\* the form as the page first shows it
DefaultForm ==
    [budget |-> "Free", data_types |-> <<"Stocks">>, frequency |-> "Real-time",
     use_case |-> "Research/Analysis"]

\* the variables of the form while another function is exercised
FormIdle == form = DefaultForm /\ validation = Validation(TRUE, TRUE, <<>>)

\* the variables of main while another function is exercised
MainIdle == analyze_clicked = FALSE /\ shown = <<>> /\ calls = <<>> /\ handled = <<>>

\* the members of DataType in the order of their definition
DataTypeOrder == <<"Stocks", "Crypto", "Forex", "Options", "Commodities">>

\* every non-empty selection of data types, listed in that order
TypeSelections ==
    {SelectSeq(DataTypeOrder, LAMBDA d : d \in S) : S \in (SUBSET DataType) \ {{}}}

\* every valid request
ShippedConstraints ==
    [budget : BudgetTier, data_types : TypeSelections,
     frequency : FrequencyTier, use_case : UseCase]

\* the request of the scenario "only one provider supports Free"
ScenarioConstraints ==
    [budget |-> "Free", data_types |-> <<"Stocks">>, frequency |-> "End-of-day",
     use_case |-> "Research/Analysis"]

\* a provider that supports the Free tier or not, covers Stocks or not, and
\* supports End-of-day data or not
ScenarioAPI(free, stocks, eod) ==
    [ name |-> IF free THEN "Alpha" ELSE "Other",
      pricing |-> ("Free" :> free @@ "Enterprise" :> TRUE),
      data_coverage |-> IF stocks THEN <<"Crypto", "Stocks">> ELSE <<"Crypto">>,
      frequency_support |-> IF eod THEN <<"End-of-day">> ELSE <<"Real-time">>,
      rate_limits |-> <<>>,
      strengths |-> <<>>,
      limitations |-> <<>>,
      tos_restrictions |-> <<>>,
      reliability_score |-> Float(9, 10),
      absent |-> {} ]

ScenarioApis ==
    {ScenarioAPI(free, stocks, eod) :
        free \in BOOLEAN, stocks \in BOOLEAN, eod \in BOOLEAN}

ScenarioCatalogs ==
    {[is_none |-> FALSE, items |-> s] : s \in SeqsUpTo(ScenarioApis, MaxScenarioApis)}

\* forms main can receive: valid ones, and ones with an unknown value or no
\* data type
MainForms ==
    [budget : {"Free", "Enterprise", "Premium"},
     data_types : {<<>>, <<"Stocks">>, <<"Stocks", "Crypto">>, <<"Bonds">>},
     frequency : {"Real-time", "End-of-day", "Hourly"},
     use_case : {"Trading Bot", "Research/Analysis", "Gambling"}]

\* a record without its strengths attribute
StrengthlessAPI == [get_all_apis[1] EXCEPT !.absent = {"strengths"}]

\* what get_all_apis() yields while main runs: the shipped catalog, an
\* exception, and catalogs with a damaged record
MainCatalogs ==
    {Ok(get_all_apis), Raise("RuntimeError", <<>>), Ok(<<MalformedAPI>>),
     Ok(<<get_all_apis[1], NoReliabilityAPI>>), Ok(<<StrengthlessAPI>>),
     Ok(NamelessCatalog)}

\* the variables of the verdict generator while another function is exercised
VerdictIdle == top_apis = <<>> /\ verdict = Ok(NoApisVerdict)

\* the variables of the fallback path while another function is exercised
FallbackIdle ==
    /\ catalog = Ok(get_all_apis)
    /\ fallback_scores = Ok(<<>>)
    /\ fallback_verdict = Ok(LastResortVerdict)

(***************************************************************************)
(* A request to the scoring engine: score_apis(constraints, apis)          *)
(***************************************************************************)
Init ==
    /\ constraints \in ConstraintsInputs
    /\ apis \in ApisInputs
    /\ pc = "start"
    /\ scored_apis = <<>>
    /\ error = ""
    /\ total_score = F0
    /\ compatibility = Ok(0)
    /\ api = CorruptedAPI
    /\ use_case_score = Ok(F0)
    /\ tos_conflict = Ok(FALSE)
    /\ VerdictIdle
    /\ FallbackIdle
    /\ FormIdle
    /\ MainIdle

ScoreApis ==
    /\ pc = "start"
    /\ LET r == score_apis(constraints, apis)
       IN  /\ pc' = IF r.raised THEN "raised" ELSE "returned"
           /\ scored_apis' = r.value
           /\ error' = r.error
    /\ UNCHANGED <<constraints, apis, total_score, compatibility, api, use_case_score,
                   tos_conflict, verdictVars, fallbackVars,
                   formVars, mainVars>>

Next == ScoreApis

Spec == Init /\ [][Next]_vars

(***************************************************************************)
(* calculate_compatibility_percentage applied to a drawn total_score       *)
(***************************************************************************)
InitCompat ==
    /\ constraints = NoConstraints
    /\ apis = NoApis
    /\ pc = "start"
    /\ scored_apis = <<>>
    /\ error = ""
    /\ total_score \in TotalScoreInputs
    /\ compatibility = Ok(0)
    /\ api = CorruptedAPI
    /\ use_case_score = Ok(F0)
    /\ tos_conflict = Ok(FALSE)
    /\ VerdictIdle
    /\ FallbackIdle
    /\ FormIdle
    /\ MainIdle

CalculateCompatibility ==
    /\ pc = "start"
    /\ compatibility' = calculate_compatibility_percentage(total_score)
    /\ pc' = "done"
    /\ UNCHANGED <<constraints, apis, scored_apis, error, total_score, api, use_case_score,
                   tos_conflict, verdictVars, fallbackVars,
                   formVars, mainVars>>

NextCompat == CalculateCompatibility

SpecCompat == InitCompat /\ [][NextCompat]_vars

(***************************************************************************)
(* score_use_case_suitability applied to a drawn record and use case       *)
(***************************************************************************)
InitUseCase ==
    /\ constraints \in {[NoConstraints EXCEPT !.use_case = u] : u \in UseCase}
    /\ apis = NoApis
    /\ pc = "start"
    /\ scored_apis = <<>>
    /\ error = ""
    /\ total_score = F0
    /\ compatibility = Ok(0)
    /\ api \in UseCaseApis
    /\ use_case_score = Ok(F0)
    /\ tos_conflict = Ok(FALSE)
    /\ VerdictIdle
    /\ FallbackIdle
    /\ FormIdle
    /\ MainIdle

ScoreUseCase ==
    /\ pc = "start"
    /\ use_case_score' = score_use_case_suitability(api, constraints)
    /\ pc' = "done"
    /\ UNCHANGED <<constraints, apis, scored_apis, error, total_score, compatibility, api,
                   tos_conflict, verdictVars, fallbackVars,
                   formVars, mainVars>>

\* the verdict's check of the same record for the same use case
CheckTosRestrictions ==
    /\ pc = "done"
    /\ tos_conflict' = has_tos_restrictions_for_use_case(api, constraints.use_case)
    /\ pc' = "checked"
    /\ UNCHANGED <<constraints, apis, scored_apis, error, total_score, compatibility, api,
                   use_case_score, verdictVars, fallbackVars,
                   formVars, mainVars>>

NextUseCase == ScoreUseCase \/ CheckTosRestrictions

SpecUseCase == InitUseCase /\ [][NextUseCase]_vars

(***************************************************************************)
(* generate_verdict applied to a drawn ranked list                         *)
(***************************************************************************)
InitVerdict ==
    /\ constraints \in VerdictConstraints
    /\ apis = NoApis
    /\ pc = "start"
    /\ scored_apis = <<>>
    /\ error = ""
    /\ total_score = F0
    /\ compatibility = Ok(0)
    /\ api = CorruptedAPI
    /\ use_case_score = Ok(F0)
    /\ tos_conflict = Ok(FALSE)
    /\ top_apis \in RankedLists(constraints)
    /\ verdict = Ok(NoApisVerdict)
    /\ FallbackIdle
    /\ FormIdle
    /\ MainIdle

\* set iteration order is not fixed: the call may see any of SetOrders
GenerateVerdict ==
    /\ pc = "start"
    /\ \E order \in SetOrders :
          verdict' = generate_verdict(top_apis, constraints, order)
    /\ pc' = "done"
    /\ UNCHANGED <<constraints, apis, scored_apis, error, total_score,
                   compatibility, api, use_case_score, tos_conflict, top_apis,
                   fallbackVars, formVars, mainVars>>

NextVerdict == GenerateVerdict

SpecVerdict == InitVerdict /\ [][NextVerdict]_vars

(***************************************************************************)
(* The fallback path: get_fallback_recommendations, then                   *)
(* generate_fallback_verdict, as the caller runs them                      *)
(***************************************************************************)
InitFallback ==
    /\ constraints \in FallbackConstraints
    /\ apis = NoApis
    /\ pc = "start"
    /\ scored_apis = <<>>
    /\ error = ""
    /\ total_score = F0
    /\ compatibility = Ok(0)
    /\ api = CorruptedAPI
    /\ use_case_score = Ok(F0)
    /\ tos_conflict = Ok(FALSE)
    /\ VerdictIdle
    /\ catalog \in CatalogInputs
    /\ fallback_scores = Ok(<<>>)
    /\ fallback_verdict = Ok(LastResortVerdict)
    /\ FormIdle
    /\ MainIdle

GetFallbackRecommendations ==
    /\ pc = "start"
    /\ fallback_scores' = get_fallback_recommendations(constraints, catalog)
    /\ pc' = "fallback_scored"
    /\ UNCHANGED <<constraints, apis, scored_apis, error, total_score,
                   compatibility, api, use_case_score, tos_conflict,
                   verdictVars, catalog, fallback_verdict,
                   formVars, mainVars>>

GenerateFallbackVerdict ==
    /\ pc = "fallback_scored"
    /\ fallback_verdict' = generate_fallback_verdict(constraints, catalog)
    /\ pc' = "done"
    /\ UNCHANGED <<constraints, apis, scored_apis, error, total_score,
                   compatibility, api, use_case_score, tos_conflict,
                   verdictVars, catalog, fallback_scores,
                   formVars, mainVars>>

NextFallback == GetFallbackRecommendations \/ GenerateFallbackVerdict

SpecFallback == InitFallback /\ [][NextFallback]_vars

(***************************************************************************)
(* The form: validate_constraints, then normalize_constraints when the     *)
(* values are valid, as collect_constraints runs them                      *)
(***************************************************************************)
InitValidate ==
    /\ constraints = NoConstraints
    /\ apis = NoApis
    /\ pc = "start"
    /\ scored_apis = <<>>
    /\ error = ""
    /\ total_score = F0
    /\ compatibility = Ok(0)
    /\ api = CorruptedAPI
    /\ use_case_score = Ok(F0)
    /\ tos_conflict = Ok(FALSE)
    /\ VerdictIdle
    /\ FallbackIdle
    /\ form \in FormInputs
    /\ validation = Validation(TRUE, TRUE, <<>>)
    /\ MainIdle

ValidateConstraints ==
    /\ pc = "start"
    /\ validation' = validate_constraints(form.budget, form.data_types,
                                          form.frequency, form.use_case)
    /\ pc' = "validated"
    /\ UNCHANGED <<constraints, apis, scored_apis, error, total_score,
                   compatibility, api, use_case_score, tos_conflict,
                   verdictVars, fallbackVars, form, mainVars>>

NormalizeConstraints ==
    /\ pc = "validated"
    /\ validation.is_valid
    /\ LET r == normalize_constraints(form.budget, form.data_types,
                                      form.frequency, form.use_case)
       IN  /\ constraints' = r.value
           /\ error' = r.error
           /\ pc' = IF r.raised THEN "raised" ELSE "normalized"
    /\ UNCHANGED <<apis, scored_apis, total_score, compatibility, api,
                   use_case_score, tos_conflict, verdictVars, fallbackVars,
                   formVars, mainVars>>

NextValidate == ValidateConstraints \/ NormalizeConstraints

SpecValidate == InitValidate /\ [][NextValidate]_vars

(***************************************************************************)
(* score_apis(constraints) over the shipped catalog, for every valid       *)
(* request                                                                 *)
(***************************************************************************)
InitShipped ==
    /\ constraints \in ShippedConstraints
    /\ apis = [is_none |-> TRUE, items |-> <<>>]
    /\ pc = "start"
    /\ scored_apis = <<>>
    /\ error = ""
    /\ total_score = F0
    /\ compatibility = Ok(0)
    /\ api = CorruptedAPI
    /\ use_case_score = Ok(F0)
    /\ tos_conflict = Ok(FALSE)
    /\ VerdictIdle
    /\ FallbackIdle
    /\ FormIdle
    /\ MainIdle

SpecShipped == InitShipped /\ [][Next]_vars

(***************************************************************************)
(* score_apis for the request {Free, {Stocks}, End-of-day, Research} over  *)
(* drawn catalogs                                                          *)
(***************************************************************************)
InitScenario ==
    /\ constraints = ScenarioConstraints
    /\ apis \in ScenarioCatalogs
    /\ pc = "start"
    /\ scored_apis = <<>>
    /\ error = ""
    /\ total_score = F0
    /\ compatibility = Ok(0)
    /\ api = CorruptedAPI
    /\ use_case_score = Ok(F0)
    /\ tos_conflict = Ok(FALSE)
    /\ VerdictIdle
    /\ FallbackIdle
    /\ FormIdle
    /\ MainIdle

SpecScenario == InitScenario /\ [][Next]_vars

(***************************************************************************)
(* main: one run of the page script.  collect_constraints, then the try    *)
(* block of the analysis, then its except clause (the fallback), then the  *)
(* except clause of the fallback.                                          *)
(***************************************************************************)
InitMain ==
    /\ constraints = NoConstraints
    /\ apis = NoApis
    /\ pc = "start"
    /\ scored_apis = <<>>
    /\ error = ""
    /\ total_score = F0
    /\ compatibility = Ok(0)
    /\ api = CorruptedAPI
    /\ use_case_score = Ok(F0)
    /\ tos_conflict = Ok(FALSE)
    /\ VerdictIdle
    /\ catalog \in MainCatalogs
    /\ fallback_scores = Ok(<<>>)
    /\ fallback_verdict = Ok(LastResortVerdict)
    /\ form \in MainForms
    /\ validation = Validation(TRUE, TRUE, <<>>)
    /\ analyze_clicked \in BOOLEAN
    /\ shown = <<>>
    /\ calls = <<>>
    /\ handled = <<>>

\* collect_constraints and the branch on its result
MainCollect ==
    /\ pc = "start"
    /\ LET v == validate_constraints(form.budget, form.data_types,
                                     form.frequency, form.use_case)
           n == normalize_constraints(form.budget, form.data_types,
                                      form.frequency, form.use_case)
       IN  /\ validation' = v
           /\ IF v.is_valid /\ n.raised
              THEN /\ pc' = "escaped"
                   /\ error' = n.error
                   /\ UNCHANGED <<constraints, shown>>
              ELSE IF ~analyze_clicked
              THEN /\ pc' = "done"
                   /\ constraints' = IF v.is_valid THEN n.value ELSE constraints
                   /\ shown' = <<Item("markdown", <<"---">>), Welcome>>
                   /\ UNCHANGED error
              ELSE IF ~v.is_valid
              THEN /\ pc' = "done"
                   /\ shown' = <<Item("warning", v.error_message.text)>>
                   /\ UNCHANGED <<constraints, error>>
              ELSE /\ pc' = "analysing"
                   /\ constraints' = n.value
                   /\ shown' = display_constraint_summary(n.value).value
                   /\ UNCHANGED error
    /\ UNCHANGED <<apis, scored_apis, total_score, compatibility, api,
                   use_case_score, tos_conflict, verdictVars, fallbackVars,
                   form, analyze_clicked, calls, handled>>

\* The try block. display_performance_feedback is called inside the with
\* block of the monitor, before elapsed_seconds is set: it sees elapsed 0.
MainPrimary ==
    /\ pc = "analysing"
    /\ LET Displayed(scores, v, results, table) ==
               LET head == display_performance_feedback("fast").value
                           \o <<Item("markdown", <<"---">>), RecommendationsHeader>>
                           \o display_verdict(v.value).value
               IN  IF scores.raised
                   THEN /\ calls' = calls \o <<"score_apis">>
                        /\ error' = scores.error
                        /\ handled' = Append(handled, "primary")
                        /\ pc' = "primary_raised"
                        /\ UNCHANGED <<shown, scored_apis, verdict>>
                   ELSE IF v.raised
                   THEN /\ calls' = calls \o <<"score_apis", "generate_verdict">>
                        /\ scored_apis' = scores.value
                        /\ error' = v.error
                        /\ handled' = Append(handled, "primary")
                        /\ pc' = "primary_raised"
                        /\ UNCHANGED <<shown, verdict>>
                   ELSE /\ calls' = calls \o <<"score_apis", "generate_verdict">>
                        /\ scored_apis' = scores.value
                        /\ verdict' = v
                        /\ IF results.raised
                           THEN /\ shown' = shown \o head \o results.value
                                /\ error' = results.error
                                /\ handled' = Append(handled, "primary")
                                /\ pc' = "primary_raised"
                           ELSE IF table.raised
                           THEN /\ shown' = shown \o head \o results.value
                                                  \o table.value
                                /\ error' = table.error
                                /\ handled' = Append(handled, "primary")
                                /\ pc' = "primary_raised"
                           ELSE /\ shown' = shown \o head \o results.value
                                                  \o table.value
                                /\ pc' = "done"
                                /\ UNCHANGED <<error, handled>>
           Judged(scores, v) ==
               Displayed(scores, v, display_results(scores.value),
                         display_trade_off_analysis(scores.value, constraints))
           Scored(scores, order) ==
               Judged(scores, generate_verdict(scores.value, constraints, order))
       IN  \E order \in SetOrders :
              Scored(score_apis_default(constraints, catalog), order)
    /\ UNCHANGED <<constraints, apis, total_score, compatibility, api,
                   use_case_score, tos_conflict, top_apis, fallbackVars,
                   formVars, analyze_clicked>>

\* (mutation) an empty fallback list ends the run without an exception
MainFallback_no_raise ==
    /\ pc = "primary_raised"
    /\ LET fb == get_fallback_recommendations(constraints, catalog)
           fv == generate_fallback_verdict(constraints, catalog)
           results == display_results(fb.value)
       IN  /\ fallback_scores' = fb
           /\ fallback_verdict' = fv
           /\ calls' = calls \o <<"get_fallback_recommendations",
                                  "generate_fallback_verdict">>
           /\ IF fb.raised \/ fv.raised
              THEN /\ shown' = shown \o <<FallbackWarning>>
                   /\ error' = IF fb.raised THEN fb.error ELSE fv.error
                   /\ handled' = Append(handled, "fallback")
                   /\ pc' = "fallback_raised"
              ELSE IF fb.value = <<>>
              THEN /\ shown' = shown \o <<FallbackWarning>>
                   /\ pc' = "done"
                   /\ UNCHANGED <<error, handled>>
              ELSE IF results.raised
              THEN /\ shown' = shown \o <<FallbackWarning, Item("markdown", <<"---">>),
                                          FallbackHeader>>
                                 \o display_verdict(fv.value).value \o results.value
                   /\ error' = results.error
                   /\ handled' = Append(handled, "fallback")
                   /\ pc' = "fallback_raised"
              ELSE /\ shown' = shown \o <<FallbackWarning, Item("markdown", <<"---">>),
                                          FallbackHeader>>
                                 \o display_verdict(fv.value).value \o results.value
                                 \o <<FallbackNote>>
                   /\ pc' = "done"
                   /\ UNCHANGED <<error, handled>>
    /\ UNCHANGED <<constraints, apis, scored_apis, total_score, compatibility,
                   api, use_case_score, tos_conflict, verdictVars, catalog,
                   formVars, analyze_clicked>>

\* the except clause of the try block: the fallback
MainFallback ==
    /\ pc = "primary_raised"
    /\ LET fb == get_fallback_recommendations(constraints, catalog)
           fv == generate_fallback_verdict(constraints, catalog)
           results == display_results(fb.value)
       IN  /\ fallback_scores' = fb
           /\ fallback_verdict' = fv
           /\ calls' = calls \o <<"get_fallback_recommendations",
                                  "generate_fallback_verdict">>
           /\ IF fb.raised \/ fv.raised
              THEN /\ shown' = shown \o <<FallbackWarning>>
                   /\ error' = IF fb.raised THEN fb.error ELSE fv.error
                   /\ handled' = Append(handled, "fallback")
                   /\ pc' = "fallback_raised"
              ELSE IF fb.value = <<>>
              \* raise Exception("Fallback system also failed")
              THEN /\ shown' = shown \o <<FallbackWarning>>
                   /\ error' = "Exception"
                   /\ handled' = Append(handled, "fallback")
                   /\ pc' = "fallback_raised"
              ELSE IF results.raised
              THEN /\ shown' = shown \o <<FallbackWarning, Item("markdown", <<"---">>),
                                          FallbackHeader>>
                                 \o display_verdict(fv.value).value \o results.value
                   /\ error' = results.error
                   /\ handled' = Append(handled, "fallback")
                   /\ pc' = "fallback_raised"
              ELSE /\ shown' = shown \o <<FallbackWarning, Item("markdown", <<"---">>),
                                          FallbackHeader>>
                                 \o display_verdict(fv.value).value \o results.value
                                 \o <<FallbackNote>>
                   /\ pc' = "done"
                   /\ UNCHANGED <<error, handled>>
    /\ UNCHANGED <<constraints, apis, scored_apis, total_score, compatibility,
                   api, use_case_score, tos_conflict, verdictVars, catalog,
                   formVars, analyze_clicked>>

\* the except clause of the fallback: the apology and the general tips
MainLastResort ==
    /\ pc = "fallback_raised"
    /\ shown' = shown \o <<Apology, GeneralTips>>
    /\ pc' = "done"
    /\ UNCHANGED <<constraints, apis, scored_apis, error, total_score,
                   compatibility, api, use_case_score, tos_conflict,
                   verdictVars, fallbackVars, formVars, analyze_clicked,
                   calls, handled>>

NextMain == MainCollect \/ MainPrimary \/ MainFallback \/ MainLastResort

SpecMain == InitMain /\ [][NextMain]_vars

\* main is straight-line code whose calls all return or raise: a run that
\* has not reached the end of the script moves on to another statement.
\* Every step of NextMain changes pc and each action is defined in every
\* state of its stage (an IF..ELSE over the outcomes of its calls), so the
\* condition is weak fairness of NextMain, written over pc alone.
FairSpecMain ==
    SpecMain /\ WF_pc(/\ pc # "done"
                      /\ pc' \in {"analysing", "primary_raised",
                                  "fallback_raised", "done"} \ {pc})

(***************************************************************************)
(* Properties of score_apis                                                *)
(***************************************************************************)
\* the catalog the call scores
Items == IF apis.is_none THEN get_all_apis ELSE apis.items

Count(list, P(_)) == Cardinality({i \in 1..Len(list) : P(list[i])})

InRange(x) == FLeq(F0, x) /\ FLeq(x, F100)

\* C1: whenever score_apis returns, the list is ordered by total_score
\* non-increasing, the element at position i has recommendation_rank i, and
\* the first element's total_score is the maximum of the returned scores.
C1_RankedDescending ==
    pc = "returned" =>
        /\ \A i \in 1..(Len(scored_apis) - 1) :
              FLeq(scored_apis[i + 1].total_score, scored_apis[i].total_score)
        /\ \A i \in 1..Len(scored_apis) : scored_apis[i].recommendation_rank = i
        /\ \A i \in 1..Len(scored_apis) :
              FLeq(scored_apis[i].total_score, scored_apis[1].total_score)

\* The sort moved a later catalog entry in front of an earlier one.
C1_Witness ==
    /\ pc = "returned"
    /\ ~apis.is_none
    /\ Len(apis.items) = 2
    /\ Len(scored_apis) = 2
    /\ FLess(scored_apis[2].total_score, scored_apis[1].total_score)
    /\ scored_apis[1].api = apis.items[2]
    /\ scored_apis[1].api # apis.items[1]

\* C2: entries of the returned list with equal total_score stand in the
\* order they had in the catalog.
C2_StableTies ==
    pc = "returned" =>
        \A i, j \in 1..Len(scored_apis) :
            (i < j /\ scored_apis[i].total_score = scored_apis[j].total_score) =>
                \E p, q \in 1..Len(Items) :
                    /\ p < q
                    /\ Items[p] = scored_apis[i].api
                    /\ Items[q] = scored_apis[j].api

\* Two different records tie, behind a better one or in front of a worse one.
C2_Witness ==
    /\ pc = "returned"
    /\ \E i \in 1..(Len(scored_apis) - 1) :
          /\ scored_apis[i].total_score = scored_apis[i + 1].total_score
          /\ scored_apis[i].api # scored_apis[i + 1].api
    /\ \E i \in 1..(Len(scored_apis) - 1) :
          FLess(scored_apis[i + 1].total_score, scored_apis[i].total_score)

\* C3: for constraints with a non-empty data_types list, the returned list
\* holds each catalog entry whose scoring did not raise exactly as often as
\* the catalog does and nothing else, and every APIScore has exactly the
\* four category scores, each in [0,100], a total_score in [0,100] and a
\* compatibility_percentage in 0..100.
C3_OneScorePerEntry ==
    (pc = "returned" /\ constraints.data_types # <<>>) =>
        /\ \A k \in 1..Len(Items) :
              LET a == Items[k]
              IN  Count(scored_apis, LAMBDA s : s.api = a) =
                    IF calculate_category_scores(a, constraints).raised THEN 0
                    ELSE Count(Items, LAMBDA x : x = a)
        /\ \A i \in 1..Len(scored_apis) : In(scored_apis[i].api, Items)
        /\ \A i \in 1..Len(scored_apis) :
              LET s == scored_apis[i]
              IN  /\ DOMAIN s.category_scores =
                        {"budget", "data_types", "frequency", "use_case"}
                  /\ \A k \in DOMAIN s.category_scores : InRange(s.category_scores[k])
                  /\ InRange(s.total_score)
                  /\ s.compatibility_percentage \in 0..100

\* An entry was skipped, another was scored with a partial data_types score.
C3_Witness ==
    /\ pc = "returned"
    /\ constraints.data_types # <<>>
    /\ Len(scored_apis) < Len(Items)
    /\ \E i \in 1..Len(scored_apis) :
          /\ FLess(F0, scored_apis[i].category_scores["data_types"])
          /\ FLess(scored_apis[i].category_scores["data_types"], F100)

\* C4: every returned total_score equals 0.30*budget + 0.30*data_types +
\* 0.25*frequency + 0.15*use_case of the entry's own category scores, and
\* the four weights sum to 1.
C4_WeightedSum ==
    pc = "returned" =>
        /\ \A i \in 1..Len(scored_apis) :
              LET s == scored_apis[i]
                  cs == s.category_scores
                  num == 30 * cs["budget"].n * cs["data_types"].d
                           * cs["frequency"].d * cs["use_case"].d
                         + 30 * cs["data_types"].n * cs["budget"].d
                           * cs["frequency"].d * cs["use_case"].d
                         + 25 * cs["frequency"].n * cs["budget"].d
                           * cs["data_types"].d * cs["use_case"].d
                         + 15 * cs["use_case"].n * cs["budget"].d
                           * cs["data_types"].d * cs["frequency"].d
                  den == 100 * cs["budget"].d * cs["data_types"].d
                           * cs["frequency"].d * cs["use_case"].d
              IN  s.total_score.n * den = num * s.total_score.d
        /\ LET w == SCORING_WEIGHTS
           IN  FAdd(FAdd(w["budget"], w["data_types"]),
                    FAdd(w["frequency"], w["use_case"])) = Float(1, 1)

\* An entry whose four category scores are all different from zero and not
\* all equal.
C4_Witness ==
    /\ pc = "returned"
    /\ \E i \in 1..Len(scored_apis) :
          LET cs == scored_apis[i].category_scores
          IN  /\ cs["budget"] = F100
              /\ FLess(F0, cs["data_types"]) /\ FLess(cs["data_types"], F100)
              /\ cs["frequency"] = F100
              /\ cs["use_case"] = F25

(***************************************************************************)
(* Properties of calculate_compatibility_percentage                        *)
(***************************************************************************)
IsNegative(t) == t.cls = "-inf" \/ (t.cls = "finite" /\ t.n < 0)
Above100(t) == t.cls = "inf" \/ (t.cls = "finite" /\ t.n > 100 * t.d)
Within0To100(t) == t.cls = "finite" /\ t.n >= 0 /\ t.n <= 100 * t.d

\* |p - t| <= 1/2
Nearest(p, t) == 2 * Abs(p * t.d - t.n) <= t.d

\* C5: calculate_compatibility_percentage never raises and returns 0 for a
\* total_score below 0, 100 for one above 100 and the nearest integer for
\* one in [0,100].
C5_ClampNeverRaises ==
    pc = "done" =>
        /\ ~compatibility.raised
        /\ IsNegative(total_score) => compatibility.value = 0
        /\ Above100(total_score) => compatibility.value = 100
        /\ Within0To100(total_score) => Nearest(compatibility.value, total_score)

\* On every total_score that is a finite number the clamp is as C5 states.
C5_FiniteClamp ==
    (pc = "done" /\ total_score.cls = "finite") =>
        /\ ~compatibility.raised
        /\ IsNegative(total_score) => compatibility.value = 0
        /\ Above100(total_score) => compatibility.value = 100
        /\ Within0To100(total_score) => Nearest(compatibility.value, total_score)

(***************************************************************************)
(* Properties of the category scores                                       *)
(***************************************************************************)
ProhibitionPhrases ==
    { <<"commercial", "use", "explicitly", "prohibited">>,
      <<"non", "-", "commercial", "use", "only">>,
      <<"personal", "/", "educational", "use", "only">> }

AllowedPhrases ==
    { <<"commercial", "use", "allowed">>, <<"commercial", "use", "included">> }

HasPhrase(phrases, clauses) ==
    \E r \in 1..Len(clauses) : \E ph \in phrases : Contains(ph, Lower(clauses[r]))

\* C6: the use-case score is 100 for every use case other than Trading Bot;
\* for Trading Bot it is 25 if a clause contains a prohibition phrase in any
\* letter case, otherwise 100 if a clause contains an allowed phrase,
\* otherwise 75, wherever the clauses stand in the list.
C6_UseCaseScore ==
    pc = "done" =>
        /\ ~use_case_score.raised
        /\ use_case_score.value =
             IF constraints.use_case # "Trading Bot" THEN F100
             ELSE IF HasPhrase(ProhibitionPhrases, api.tos_restrictions) THEN F25
             ELSE IF HasPhrase(AllowedPhrases, api.tos_restrictions) THEN F100
             ELSE F75

\* Trading Bot, an allowed clause written in capitals standing in front of
\* a prohibition clause: the score is 25.
C6_Witness ==
    /\ pc = "done"
    /\ constraints.use_case = "Trading Bot"
    /\ Len(api.tos_restrictions) = 2
    /\ api.tos_restrictions[1] = <<"COMMERCIAL", "USE", "ALLOWED">>
    /\ api.tos_restrictions[2] =
          <<"Free", "tier", "for", "personal", "/", "non", "-", "commercial", "use", "only">>
    /\ use_case_score.value = F25

SetOf(list) == {list[i] : i \in 1..Len(list)}

\* C7: the data_types score equals 100 * |requested /\ supported| /
\* |requested| with the request and the coverage taken as sets, and 100 for
\* an empty request.
C7_SetCoverage ==
    pc = "returned" =>
        \A i \in 1..Len(scored_apis) :
            LET s == scored_apis[i]
                requested == SetOf(constraints.data_types)
                supported == SetOf(s.api.data_coverage)
            IN  s.category_scores["data_types"] =
                    IF requested = {} THEN F100
                    ELSE Float(100 * Cardinality(requested \cap supported),
                               Cardinality(requested))

\* C8: the budget score is 100 exactly when the pricing maps the requested
\* tier to true and 0 otherwise, also when the tier is missing from the
\* mapping; the frequency score is 100 exactly when the requested frequency
\* is in frequency_support and 0 otherwise.
C8_BinaryScores ==
    pc = "returned" =>
        \A i \in 1..Len(scored_apis) :
            LET s == scored_apis[i]
            IN  /\ s.category_scores["budget"] =
                     IF /\ constraints.budget \in DOMAIN s.api.pricing
                        /\ s.api.pricing[constraints.budget]
                     THEN F100 ELSE F0
                /\ s.category_scores["frequency"] =
                     IF constraints.frequency \in SetOf(s.api.frequency_support)
                     THEN F100 ELSE F0

\* One scored entry has no pricing entry for the tier, one maps it to
\* false, one to true; the frequency is supported by one and not by another.
C8_Witness ==
    /\ pc = "returned"
    /\ \E i \in 1..Len(scored_apis) :
          constraints.budget \notin DOMAIN scored_apis[i].api.pricing
    /\ \E i \in 1..Len(scored_apis) :
          /\ constraints.budget \in DOMAIN scored_apis[i].api.pricing
          /\ scored_apis[i].api.pricing[constraints.budget]
          /\ scored_apis[i].category_scores["frequency"] = F0
          /\ scored_apis[i].category_scores["budget"] = F100

\* the entries of the catalog whose scoring does not raise
Scorable == SelectSeq(Items, LAMBDA a : ~ScoreOne(a, constraints).raised)

\* C9: when scoring an entry raises, the entry is skipped: if at least one
\* entry can be scored the call returns, and the list holds exactly the
\* entries that did not raise, ranked 1..M.
C9_SkipsFailingEntry ==
    (pc # "start" /\ Scorable # <<>>) =>
        /\ pc = "returned"
        /\ Len(scored_apis) = Len(Scorable)
        /\ \A k \in 1..Len(Scorable) :
              \E i \in 1..Len(scored_apis) : scored_apis[i].api = Scorable[k]
        /\ \A i \in 1..Len(scored_apis) : scored_apis[i].recommendation_rank = i

NamelessAhead ==
    \E i \in 1..Min(2, Len(top_apis)) : ~Has(top_apis[i].api, "name")

\* C11: generate_verdict never propagates an exception: for every ranked
\* list and constraints, malformed elements included, the call returns a
\* Verdict, and it is the generic one of the outer handler when the failing
\* step is one no inner handler covers.
C11_NeverPropagates ==
    pc = "done" =>
        /\ ~verdict.raised
        /\ NamelessAhead => verdict.value = ErrorVerdict

\* C12: given an empty ranked list, generate_verdict returns a Verdict
\* whose text announces that no APIs were available, with at least one next
\* step, no trade-off and both alternative fields empty.
C12_EmptyListVerdict ==
    (pc = "done" /\ top_apis = <<>>) =>
        /\ ~verdict.raised
        /\ Contains(<<"No", "APIs", "available">>, verdict.value.recommendation_text)
        /\ Len(verdict.value.next_steps) >= 1
        /\ verdict.value.trade_offs = <<>>
        /\ verdict.value.alternative_api = ""
        /\ verdict.value.alternative_reason = <<>>

\* the call on an empty list has returned its one-step Verdict
C12_Witness ==
    /\ pc = "done" /\ top_apis = <<>>
    /\ ~verdict.raised
    /\ verdict.value.next_steps =
           << <<"Please", "check", "your", "constraints", "and", "try", "again.">> >>

\* every element of the ranked list is a complete record
WellFormed(list) == \A i \in 1..Len(list) : list[i].api.absent = {}

\* C13: for every non-empty ranked list and every constraints value,
\* whether or not the winner supports the requested budget tier, the
\* recommendation text contains the winner's name, the winner's
\* compatibility percentage and the requested budget tier (the tier in any
\* letter case).
C13_TextNamesEntities ==
    (pc = "done" /\ top_apis # <<>> /\ WellFormed(top_apis)) =>
        /\ ~verdict.raised
        /\ Contains(Words(top_apis[1].api.name), verdict.value.recommendation_text)
        /\ Contains(<<ToString(top_apis[1].compatibility_percentage)>>,
                    verdict.value.recommendation_text)
        /\ Contains(Lower(Words(constraints.budget)),
                    Lower(verdict.value.recommendation_text))

\* C14: every Verdict generate_verdict returns has a non-empty next_steps
\* list, on every return path: empty input, steps built for the winner,
\* the default steps used when building them fails, and the generic
\* Verdict of the outer handler.
C14_NextStepsNonEmpty ==
    (pc = "done" /\ ~verdict.raised) =>
        /\ verdict.value.next_steps # <<>>
        /\ \A i \in 1..Len(verdict.value.next_steps) :
              verdict.value.next_steps[i] # <<>>

\* building the steps failed for a winner without tos_restrictions and the
\* three default steps were returned
C14_Witness ==
    /\ pc = "done" /\ ~verdict.raised
    /\ top_apis # <<>>
    /\ generate_next_steps(top_apis[1].api, constraints).raised
    /\ verdict.value.recommendation_text # ErrorVerdict.recommendation_text
    /\ Len(verdict.value.next_steps) = 3

InstabilityPhrases ==
    { <<"unofficial", "api">>, <<"may", "break", "without", "notice">> }

\* the limitations of the winner that C15 names
Qualifying(winner, c) ==
    \/ FLess(winner.api.reliability_score, Float(70, 100))
    \/ /\ c.use_case = "Trading Bot"
       /\ HasPhrase(ProhibitionPhrases, winner.api.tos_restrictions)
    \/ HasPhrase(InstabilityPhrases, winner.api.limitations)

\* C15: for every ranked list of complete records and every constraints,
\* generate_verdict populates the alternative if and only if a runner-up
\* (second element) exists and the winner has a qualifying limitation:
\* reliability_score < 0.70, or Trading Bot and a ToS clause with a
\* commercial-prohibition phrase, or a limitation text with 'unofficial api'
\* or 'may break without notice'.  In every other case both alternative
\* fields are empty.
C15_AlternativeIffQualifying ==
    (pc = "done" /\ WellFormed(top_apis)) =>
        /\ ~verdict.raised
        /\ IF Len(top_apis) >= 2 /\ Qualifying(top_apis[1], constraints)
           THEN /\ verdict.value.alternative_api # ""
                /\ verdict.value.alternative_reason # <<>>
           ELSE /\ verdict.value.alternative_api = ""
                /\ verdict.value.alternative_reason = <<>>

\* a reliable winner whose terms conflict with a trading bot, with a
\* runner-up: the alternative is populated
C15_Witness ==
    /\ pc = "done" /\ WellFormed(top_apis) /\ Len(top_apis) = 2
    /\ constraints.use_case = "Trading Bot"
    /\ ~FLess(top_apis[1].api.reliability_score, Float(70, 100))
    /\ ~HasPhrase(InstabilityPhrases, top_apis[1].api.limitations)
    /\ verdict.value.alternative_api = top_apis[2].api.name
    /\ verdict.value.alternative_reason # <<>>

BothOrNeither(v) == (v.alternative_api # "") <=> (v.alternative_reason # <<>>)

\* C16: in every Verdict returned by generate_verdict or by
\* generate_fallback_verdict, alternative_api is non-empty exactly when
\* alternative_reason is non-empty, and an alternative_api set by
\* generate_verdict is the name of the second element of the ranked list.
C16_AlternativeBothOrNeither ==
    /\ (pc = "done" /\ ~verdict.raised) =>
          /\ BothOrNeither(verdict.value)
          /\ verdict.value.alternative_api # "" =>
                /\ Len(top_apis) >= 2
                /\ verdict.value.alternative_api = top_apis[2].api.name
    /\ (pc = "done" /\ ~fallback_verdict.raised) =>
          BothOrNeither(fallback_verdict.value)

(***************************************************************************)
(* Properties of has_tos_restrictions_for_use_case                         *)
(***************************************************************************)
\* C17: the verdict's ToS-conflict check agrees with the scoring penalty:
\* for every record, has_tos_restrictions_for_use_case(api, Trading Bot) is
\* true exactly when score_use_case_suitability gives 25 for Trading Bot,
\* and for every other use case the check is false and the score is 100.
C17_TosCheckMatchesPenalty ==
    pc = "checked" =>
        /\ ~tos_conflict.raised /\ ~use_case_score.raised
        /\ IF constraints.use_case = "Trading Bot"
           THEN tos_conflict.value <=> (use_case_score.value = F25)
           ELSE ~tos_conflict.value /\ use_case_score.value = F100

\* Trading Bot and a record whose only clause is the free-tier clause that
\* only the verdict's keyword list spells out: conflict and penalty agree
C17_Witness ==
    /\ pc = "checked"
    /\ constraints.use_case = "Trading Bot"
    /\ api.tos_restrictions =
           << <<"Free", "tier", "for", "personal", "/", "non", "-",
                "commercial", "use", "only">> >>
    /\ tos_conflict.value
    /\ use_case_score.value = F25

(***************************************************************************)
(* Properties of the fallback path                                         *)
(***************************************************************************)
\* the record supports the requested budget and covers a requested type
Compatible(a, c) ==
    /\ c.budget \in DOMAIN a.pricing /\ a.pricing[c.budget]
    /\ SetOf(c.data_types) \cap SetOf(a.data_coverage) # {}

CompatibleEntries == SelectSeq(get_all_apis, LAMBDA a : Compatible(a, constraints))

\* a well-typed request served from the shipped catalog has been scored
FallbackScored ==
    /\ pc \in {"fallback_scored", "done"}
    /\ constraints.absent = {}
    /\ catalog = Ok(get_all_apis)

DescendingByReliability(r) ==
    \A i, j \in 1..Len(r) :
        i < j => FLeq(r[j].api.reliability_score, r[i].api.reliability_score)

\* C18: for every constraints value for which some catalog entry supports
\* the requested budget and covers a requested data type,
\* get_fallback_recommendations returns exactly the compatible entries,
\* each with total_score = reliability_score * 100 and frequency and
\* use_case category scores of 75, ordered by reliability_score
\* non-increasing, with recommendation_rank equal to the 1-based position.
C18_FallbackCompatibleEntries ==
    (FallbackScored /\ CompatibleEntries # <<>>) =>
        /\ ~fallback_scores.raised
        /\ LET r == fallback_scores.value
           IN  /\ Len(r) = Len(CompatibleEntries)
               /\ {r[i].api : i \in 1..Len(r)} = SetOf(CompatibleEntries)
               /\ \A i \in 1..Len(r) :
                     /\ r[i].total_score = FMul(r[i].api.reliability_score, Float(100, 1))
                     /\ r[i].category_scores["frequency"] = F75
                     /\ r[i].category_scores["use_case"] = F75
                     /\ r[i].recommendation_rank = i
               /\ DescendingByReliability(r)

\* some but not all entries are compatible and the most reliable of them,
\* which is not first in the catalog, is ranked first
C18_Witness ==
    /\ FallbackScored
    /\ Len(fallback_scores.value) >= 2
    /\ Len(fallback_scores.value) < Len(get_all_apis)
    /\ fallback_scores.value[1].api # CompatibleEntries[1]
    /\ fallback_scores.value[1].recommendation_rank = 1
    /\ fallback_scores.value[1].category_scores["use_case"] = F75

\* C19: if filtering leaves no compatible entry, get_fallback_recommendations
\* returns exactly the three highest-reliability entries of the full
\* catalog, in descending reliability with ranks 1, 2, 3, each with all four
\* category scores equal to 50; and a returned entry is incompatible with
\* the budget or the data types only on this path.
C19_MostReliableThree ==
    FallbackScored =>
        /\ ~fallback_scores.raised
        /\ LET r == fallback_scores.value
               returned == {r[i].api : i \in 1..Len(r)}
           IN  /\ CompatibleEntries = <<>> =>
                     /\ Len(r) = 3
                     /\ Cardinality(returned) = 3
                     /\ returned \subseteq SetOf(get_all_apis)
                     /\ \A a \in SetOf(get_all_apis) \ returned : \A b \in returned :
                           FLeq(a.reliability_score, b.reliability_score)
                     /\ DescendingByReliability(r)
                     /\ \A i \in 1..3 :
                           /\ r[i].recommendation_rank = i
                           /\ \A k \in DOMAIN r[i].category_scores :
                                 r[i].category_scores[k] = Float(50, 1)
                           /\ DOMAIN r[i].category_scores =
                                 {"budget", "data_types", "frequency", "use_case"}
               /\ (\E i \in 1..Len(r) : ~Compatible(r[i].api, constraints)) =>
                     CompatibleEntries = <<>>

\* a request no entry is compatible with got the three most reliable
\* providers, the first of which does not support the requested budget
C19_Witness ==
    /\ FallbackScored
    /\ CompatibleEntries = <<>>
    /\ [i \in 1..Len(fallback_scores.value) |-> fallback_scores.value[i].api.name] =
           <<"Quandl", "Polygon.io", "Finnhub">>
    /\ constraints.budget = "Free"
    /\ fallback_scores.value[1].category_scores["budget"] = Float(50, 1)

\* C20: the fallback path never propagates an exception: for every
\* constraints value get_fallback_recommendations returns a list and
\* generate_fallback_verdict returns a Verdict with non-empty next_steps,
\* each falling through to a lower-level static default when a level fails
\* (the entries scored 75 or no entry when the reliability scoring raises).
C20_FallbackNeverRaises ==
    /\ pc \in {"fallback_scored", "done"} =>
          /\ ~fallback_scores.raised
          /\ FallbackTry(constraints, catalog).raised =>
                \A i \in 1..Len(fallback_scores.value) :
                    /\ fallback_scores.value[i].total_score = F75
                    /\ fallback_scores.value[i].compatibility_percentage = 75
    /\ pc = "done" =>
          /\ ~fallback_verdict.raised
          /\ fallback_verdict.value.next_steps # <<>>
          /\ fallback_verdict.value.recommendation_text # <<>>

\* constraints=None made the reliability scoring raise; the three providers
\* named in the handler were returned and a Verdict was built around the
\* first
C20_Witness ==
    /\ pc = "done"
    /\ constraints = NoneConstraints
    /\ FallbackTry(constraints, catalog).raised
    /\ Len(fallback_scores.value) = 3
    /\ fallback_scores.value[1].total_score = F75
    /\ ~fallback_verdict.raised
    /\ fallback_verdict.value = FallbackWinnerVerdict(fallback_scores.value[1])

(***************************************************************************)
(* Properties of the fallback verdict                                      *)
(***************************************************************************)
HasWord(words, text) == \E i \in 1..Len(text) : LowerWord(text[i]) \in words

\* the text says "fallback", or "reliability", or that the system is
\* unavailable
FallbackMarker(text) ==
    \/ HasWord({"fallback"}, text)
    \/ HasWord({"reliability"}, text)
    \/ HasWord({"system", "(system"}, text) /\ HasWord({"unavailable"}, text)

\* C21: every Verdict generate_fallback_verdict returns (winner found, no
\* entries, internal error) carries a marker naming "fallback",
\* "reliability" or "system unavailable" in its recommendation text, and a
\* verdict built around a fallback winner names the winner and states its
\* reliability percentage.
C21_FallbackMarker ==
    pc = "done" =>
        /\ ~fallback_verdict.raised
        /\ FallbackMarker(fallback_verdict.value.recommendation_text)
        /\ ( /\ fallback_scores.value # <<>>
             /\ Has(fallback_scores.value[1].api, "name")
             /\ Has(fallback_scores.value[1].api, "reliability_score") ) =>
               LET winner == fallback_scores.value[1].api
                   text == fallback_verdict.value.recommendation_text
               IN  /\ Contains(Words(winner.name), text)
                   /\ Contains(<<Percent(winner.reliability_score), "%">>, text)

\* the names of the shipped providers
ProviderNames == {get_all_apis[i].name : i \in 1..Len(get_all_apis)}

NamesProvider(text) == \E n \in ProviderNames : Contains(Words(n), text)

\* C22: when fallback scoring produces no entries, generate_fallback_verdict
\* returns a static Verdict with retry instructions that names no specific
\* provider in its recommendation text, trade-offs or next steps.
C22_NoProviderNamed ==
    (pc = "done" /\ fallback_scores.value = <<>>) =>
        LET v == fallback_verdict.value
        IN  /\ ~fallback_verdict.raised
            /\ v = NoFallbackVerdict
            /\ \E i \in 1..Len(v.next_steps) :
                  Contains(<<"again">>, v.next_steps[i])
            /\ ~NamesProvider(v.recommendation_text)
            /\ \A i \in 1..Len(v.trade_offs) : ~NamesProvider(v.trade_offs[i])
            /\ \A i \in 1..Len(v.next_steps) : ~NamesProvider(v.next_steps[i])

(***************************************************************************)
(* Properties of the form validation                                       *)
(***************************************************************************)
FormValid(f) ==
    /\ f.budget \in BudgetTier
    /\ f.data_types # <<>>
    /\ \A i \in 1..Len(f.data_types) : f.data_types[i] \in DataType
    /\ f.frequency \in FrequencyTier
    /\ f.use_case \in UseCase

\* the name of the first field, in the order budget, data types, frequency,
\* use case, whose value is not acceptable
FirstOffendingField(f) ==
    IF f.budget \notin BudgetTier THEN <<"budget">>
    ELSE IF \/ f.data_types = <<>>
            \/ \E i \in 1..Len(f.data_types) : f.data_types[i] \notin DataType
         THEN <<"data", "type">>
    ELSE IF f.frequency \notin FrequencyTier THEN <<"frequency">>
    ELSE <<"use", "case">>

\* C23: validate_constraints returns (True, None) exactly when budget,
\* frequency and use case are known enum values and data_types is non-empty
\* with only known values; otherwise it returns (False, message) and the
\* message names the first offending field in the order budget, data types,
\* frequency, use case.
C23_ValidationNamesField ==
    pc \in {"validated", "normalized", "raised"} =>
        IF FormValid(form)
        THEN validation = Validation(TRUE, TRUE, <<>>)
        ELSE /\ ~validation.is_valid
             /\ ~validation.error_message.is_none
             /\ Contains(FirstOffendingField(form), validation.error_message.text)

\* a form with a known budget, an unknown data type after a known one and an
\* unknown frequency was rejected for its data type
C23_Witness ==
    /\ pc = "validated"
    /\ form.budget = "Enterprise"
    /\ form.data_types = <<"Stocks", "Bonds">>
    /\ form.frequency = "Hourly"
    /\ validation = Validation(FALSE, FALSE, <<"Invalid", "data", "type", ":", "Bonds">>)

(***************************************************************************)
(* Properties of the shipped catalog                                       *)
(***************************************************************************)
\* C24: the catalog get_all_apis returns has at least 5 records, no two
\* records share a name, and every BudgetTier, every DataType and every
\* FrequencyTier is supported by at least one record.
C24_CatalogComplete ==
    apis.is_none =>
        /\ Len(Items) >= 5
        /\ \A i, j \in 1..Len(Items) : Items[i].name = Items[j].name => i = j
        /\ \A b \in BudgetTier :
              \E i \in 1..Len(Items) : DictGet(Items[i].pricing, b, FALSE)
        /\ \A d \in DataType :
              \E i \in 1..Len(Items) : In(d, Items[i].data_coverage)
        /\ \A f \in FrequencyTier :
              \E i \in 1..Len(Items) : In(f, Items[i].frequency_support)

\* score_apis(constraints) fetched the catalog and ranked its seven records
C24_Witness ==
    /\ pc = "returned"
    /\ apis.is_none
    /\ Len(scored_apis) = 7
    /\ {scored_apis[i].api : i \in 1..7} = {get_all_apis[i] : i \in 1..7}

\* C30: over the shipped catalog, for every valid constraints value (any
\* budget tier, any non-empty set of data types, any frequency, any use
\* case) the rank-1 provider returned by score_apis supports the requested
\* budget tier and the requested frequency: its budget and frequency category
\* scores are both 100.
C30_WinnerSupportsBudgetAndFrequency ==
    (apis.is_none /\ pc # "start") =>
        /\ pc = "returned"
        /\ scored_apis # <<>>
        /\ LET winner == scored_apis[1]
           IN  /\ winner.recommendation_rank = 1
               /\ DictGet(winner.api.pricing, constraints.budget, FALSE)
               /\ In(constraints.frequency, winner.api.frequency_support)
               /\ winner.category_scores["budget"] = F100
               /\ winner.category_scores["frequency"] = F100

\* a request only some records can serve in full: Quandl has no Free tier,
\* Yahoo Finance and EODHD no real-time data, and a record that has both
\* was ranked first
C30_Witness ==
    /\ pc = "returned"
    /\ apis.is_none
    /\ constraints.budget = "Free"
    /\ constraints.frequency = "Real-time"
    /\ constraints.data_types = <<"Stocks", "Options", "Commodities">>
    /\ scored_apis[1].category_scores["budget"] = F100
    /\ scored_apis[1].category_scores["frequency"] = F100
    /\ \E i \in 2..Len(scored_apis) : scored_apis[i].category_scores["frequency"] = F0
    /\ \E i \in 2..Len(scored_apis) : scored_apis[i].category_scores["budget"] = F0

(***************************************************************************)
(* The scenario with one provider of a Free tier                           *)
(***************************************************************************)
FreeProviders(list) ==
    {i \in 1..Len(list) : DictGet(list[i].pricing, "Free", FALSE)}

\* C25 (as stated): for constraints {Free, {Stocks}, End-of-day, Research}
\* and a catalog in which exactly one provider supports the Free tier,
\* score_apis ranks that provider first whatever its data coverage and
\* frequency support, and its budget category score is 100.
C25_SoleFreeProviderFirst ==
    (pc = "returned" /\ constraints = ScenarioConstraints
       /\ Cardinality(FreeProviders(Items)) = 1) =>
        /\ DictGet(scored_apis[1].api.pricing, "Free", FALSE)
        /\ scored_apis[1].category_scores["budget"] = F100

\* C25 (amended): in that scenario the provider of the Free tier has the
\* budget category score 100 and every other provider 0, and it is ranked
\* first whenever it covers Stocks.
C25_SoleFreeProviderFirstIfStocks ==
    (pc = "returned" /\ constraints = ScenarioConstraints
       /\ Cardinality(FreeProviders(Items)) = 1) =>
        /\ Len(scored_apis) = Len(Items)
        /\ \A i \in 1..Len(scored_apis) :
              scored_apis[i].category_scores["budget"] =
                  IF DictGet(scored_apis[i].api.pricing, "Free", FALSE)
                  THEN F100 ELSE F0
        /\ (\E i \in FreeProviders(Items) : In("Stocks", Items[i].data_coverage)) =>
              DictGet(scored_apis[1].api.pricing, "Free", FALSE)

\* the provider of the Free tier covers Stocks but has no End-of-day data;
\* it was ranked ahead of a provider that has both and no Free tier
C25_Witness ==
    /\ pc = "returned"
    /\ constraints = ScenarioConstraints
    /\ Len(scored_apis) = 2
    /\ scored_apis[1].api = ScenarioAPI(TRUE, TRUE, FALSE)
    /\ scored_apis[2].api = ScenarioAPI(FALSE, TRUE, TRUE)
    /\ Items[1] = scored_apis[2].api
    /\ scored_apis[1].total_score = Float(75, 1)
    /\ scored_apis[2].total_score = Float(70, 1)

(***************************************************************************)
(* Properties of the trade-offs, the next steps and the alternative        *)
(***************************************************************************)
\* which of the five sentences a trade-off is
TradeOffKind(sentence) ==
    IF Contains(<<"excels", "at:">>, sentence) THEN "e"
    ELSE IF Contains(<<"requires", "payment">>, sentence) THEN "d"
    ELSE IF Contains(<<"higher", "reliability">>, sentence) THEN "a"
    ELSE IF Contains(<<"higher", "rate", "limits">>, sentence) THEN "b"
    ELSE IF Contains(<<"also", "need">>, sentence) THEN "c"
    ELSE "other"

RequestsPerMinute(a) == DictGet(a.rate_limits, "requests_per_minute", 0)

HasFreeTier(a) == DictGet(a.pricing, "Free", FALSE)

\* the sentences C27 expects for a winner and a runner-up, in order
ExpectedTradeOffKinds(top, second, c) ==
    (IF FLess(top.reliability_score, second.reliability_score)
     THEN <<"a">> ELSE <<>>) \o
    (IF RequestsPerMinute(second) > RequestsPerMinute(top)
     THEN <<"b">> ELSE <<>>) \o
    (IF \E dt \in DataType : In(dt, second.data_coverage) /\ ~In(dt, top.data_coverage)
     THEN <<"c">> ELSE <<>>) \o
    (IF c.budget = "Free" /\ HasFreeTier(top) # HasFreeTier(second)
     THEN <<"d">> ELSE <<>>) \o
    (IF top.strengths # <<>> THEN <<"e">> ELSE <<>>)

\* C27: generate_verdict produces trade-offs only when a runner-up exists.
\* With a runner-up each sentence is appended exactly when its own condition
\* holds, in the fixed order: (a) the runner-up is more reliable, (b) its
\* requests-per-minute limit is higher, (c) it covers a data type the winner
\* does not, (d) the budget is Free and free-tier availability differs
\* between the two, (e) the winner's first strength.
C27_TradeOffsInOrder ==
    (pc = "done" /\ top_apis # <<>> /\ WellFormed(top_apis)) =>
        /\ ~verdict.raised
        /\ LET offs == verdict.value.trade_offs
           IN  [i \in 1..Len(offs) |-> TradeOffKind(offs[i])] =
                  IF Len(top_apis) < 2 THEN <<>>
                  ELSE ExpectedTradeOffKinds(top_apis[1].api, top_apis[2].api,
                                             constraints)

\* the attributes the rate-limit step and the ToS step read
StepAttributes == {"rate_limits", "tos_restrictions"}

\* the record with every attribute in place
Complete(a) == [a EXCEPT !.absent = {}]

IsRateLimitStep(step) == Contains(<<"rate", "limit">>, step)

IsTosStep(step) == Contains(<<"Terms", "of", "Service">>, step)

\* the steps of the failure-free run, less the steps that cannot be built
IsolatedSteps(a, c) ==
    SelectSeq(generate_next_steps(Complete(a), c).value,
              LAMBDA step : /\ ~(IsRateLimitStep(step) /\ ~Has(a, "rate_limits"))
                            /\ ~(IsTosStep(step) /\ ~Has(a, "tos_restrictions")))

\* C28: next steps are isolated per step: when the construction of one step
\* fails, only that step is missing from next_steps and the other steps are
\* the same as in a failure-free run for the same winner and constraints.
C28_StepsIsolated ==
    ( /\ pc = "done" /\ top_apis # <<>>
      /\ top_apis[1].api.absent # {}
      /\ top_apis[1].api.absent \subseteq StepAttributes
      /\ \A i \in 2..Len(top_apis) : top_apis[i].api.absent = {} ) =>
        /\ ~verdict.raised
        /\ verdict.value.next_steps = IsolatedSteps(top_apis[1].api, constraints)

Shows(item) == \E i \in 1..Len(shown) : shown[i] = item

\* the run went through the try block alone: the primary verdict and the
\* primary ranked result are on the page, nothing of the fallback is
PrimaryOutcome ==
    /\ handled = <<>>
    /\ calls = <<"score_apis", "generate_verdict">>
    /\ ~verdict.raised /\ scored_apis # <<>>
    /\ Shows(RecommendationsHeader)
    /\ Shows(Item("verdict", verdict.value.recommendation_text))
    /\ Shows(Item("results", Names(scored_apis)))
    /\ Shows(Item("table", Names(scored_apis)))
    /\ ~Shows(FallbackWarning) /\ ~Shows(FallbackHeader) /\ ~Shows(Apology)

\* the try block was left by an exception and the fallback ran to its end:
\* the warning, the fallback verdict, the fallback ranked result and the
\* note are on the page, the apology is not
FallbackOutcome ==
    /\ handled = <<"primary">>
    /\ calls[1] = "score_apis"
    /\ SubSeq(calls, Len(calls) - 1, Len(calls)) =
          <<"get_fallback_recommendations", "generate_fallback_verdict">>
    /\ ~fallback_scores.raised /\ fallback_scores.value # <<>>
    /\ Shows(FallbackWarning) /\ Shows(FallbackHeader)
    /\ Shows(Item("verdict", fallback_verdict.value.recommendation_text))
    /\ Shows(Item("results", Names(fallback_scores.value)))
    /\ Shows(FallbackNote)
    /\ ~Shows(Apology)

\* the fallback returned no entry or was left by an exception: the page
\* ends with the apology and the general tips
ApologyOutcome ==
    /\ handled = <<"primary", "fallback">>
    /\ \/ fallback_scores.value = <<>>
       \/ display_results(fallback_scores.value).raised
    /\ Len(shown) >= 2
    /\ SubSeq(shown, Len(shown) - 1, Len(shown)) = <<Apology, GeneralTips>>
    /\ ~Shows(FallbackNote)

OutcomeCount ==
    Cardinality({o \in {"primary", "fallback", "apology"} :
                    \/ o = "primary" /\ PrimaryOutcome
                    \/ o = "fallback" /\ FallbackOutcome
                    \/ o = "apology" /\ ApologyOutcome})

MainEnded ==
    /\ pc # "escaped"
    /\ (pc = "done" /\ analyze_clicked /\ FormValid(form)) => OutcomeCount = 1
    /\ (pc = "done" /\ analyze_clicked /\ ~FormValid(form)) =>
          /\ calls = <<>>
          /\ handled = <<>>
          /\ shown = <<Item("warning", validation.error_message.text)>>
          /\ ~validation.is_valid
    /\ (analyze_clicked /\ ~FormValid(form)) => pc \in {"start", "done"}

\* C26: in main every analyse request with valid constraints ends in exactly
\* one of three outcomes: the primary ranked result and verdict are shown;
\* or, after the primary scoring, verdict or display raised, the
\* fallback-flagged ranked result and fallback verdict are shown; or, after
\* the fallback also failed or returned no entries, the static apology with
\* generic tips is shown.  No exception escapes main, and a request that
\* fails validation shows only the validation error and never invokes
\* score_apis.
C26_RequestEndsInOneOutcome == [](MainEnded) /\ <>(pc = "done")

\* scoring raised for a valid request (no record of the catalog could be
\* scored) and the fallback result was shown
C26_Witness ==
    /\ pc = "done"
    /\ analyze_clicked /\ FormValid(form)
    /\ calls = <<"score_apis", "get_fallback_recommendations",
                 "generate_fallback_verdict">>
    /\ FallbackOutcome
    /\ ~PrimaryOutcome /\ ~ApologyOutcome

====
